---- MODULE Spec2Model ----
(***************************************************************************)
(* Verification model of the trip planner's settlement and synchronisation *)
(* core: SettleView (expense settlement), safeMigrateExpenses (legacy      *)
(* expense migration) and App (the hybrid local/cloud state coordinator).  *)
(*                                                                         *)
(* Money is a JavaScript number.  Every amount the settlement computes is  *)
(* a sum of terms cost/n with n at most the number of names, so amounts    *)
(* are represented exactly as integers in units of 1/Scale.                *)
(***************************************************************************)
EXTENDS Integers, Sequences, FiniteSets, TLC

\* ------------------------------------------------------------------------
\* Bounds and input domains
\* ------------------------------------------------------------------------

\* Participant names used for settlement inputs.
Names == {"A", "B", "C"}

\* Expense costs (whole currency units): 1 sits on the settlement threshold,
\* 3 gives halves and an exact 1, 100 gives thirds.
Costs == {1, 3, 100}

\* Longest expense list given to the settlement.
MaxExpenses == 2

\* 1 currency unit = Scale model units; every cost/n with n <= 3 is exact.
Scale == 2 * 3

\* ------------------------------------------------------------------------
\* Sequence helpers
\* ------------------------------------------------------------------------

Range(s) == {s[i] : i \in DOMAIN s}

Abs(x) == IF x < 0 THEN -x ELSE x

Min(a, b) == IF a <= b THEN a ELSE b

RECURSIVE SumSeq(_)
SumSeq(s) == IF s = <<>> THEN 0 ELSE Head(s) + SumSeq(Tail(s))

\* Sequences of distinct elements of S with length in lo..hi.
DistinctSeqs(S, lo, hi) ==
    {s \in UNION {[1..n -> S] : n \in lo..hi} :
        \A i, j \in DOMAIN s : i # j => s[i] # s[j]}

\* Set.prototype.add on an insertion-ordered Set: a present value keeps its place.
SetAdd(s, x) == IF x \in Range(s) THEN s ELSE Append(s, x)

RECURSIVE SetAddAll(_, _)
SetAddAll(s, xs) ==
    IF xs = <<>> THEN s ELSE SetAddAll(SetAdd(s, Head(xs)), Tail(xs))

\* ------------------------------------------------------------------------
\* SettleView: the settlement computation
\* ------------------------------------------------------------------------

\* Math.round on a positive amount given in 1/Scale units; result in whole units.
MathRoundFloor(a) == a \div Scale
MathRound(a) == (2 * a + Scale) \div (2 * Scale)

\* allParticipants: the roster, then every payer and splitBy name, in
\* insertion order (Array.from of the Set).
RECURSIVE CollectParticipants(_, _)
CollectParticipants(acc, es) ==
    IF es = <<>> THEN acc
    ELSE LET e == Head(es)
             withPayer == IF e.payer # "" THEN SetAdd(acc, e.payer) ELSE acc
         IN CollectParticipants(SetAddAll(withPayer, e.splitBy), Tail(es))

RosterOnlyParticipants(expenses, tripUsers) == SetAddAll(<<>>, tripUsers)
allParticipants(expenses, tripUsers) ==
    CollectParticipants(SetAddAll(<<>>, tripUsers), expenses)

\* beneficiaries of one expense: splitBy, else the legacy isShared fallback.
beneficiaries(item, tripUsers) ==
    IF Len(item.splitBy) > 0 THEN item.splitBy
    ELSE IF item.isShared THEN tripUsers ELSE <<item.payer>>

\* The "purely private" test that skips an expense in the debt calculation.
IsPrivate(item, tripUsers) ==
    LET b == beneficiaries(item, tripUsers)
    IN Len(b) = 1 /\ b[1] = item.payer

\* splitAmount = item.cost / beneficiaries.length, in 1/Scale units.
splitAmountTruncated(item, tripUsers) ==
    LET n == Len(beneficiaries(item, tripUsers))
    IN IF n = 0 THEN 0 ELSE (item.cost \div n) * Scale
splitAmount(item, tripUsers) ==
    LET n == Len(beneficiaries(item, tripUsers))
    IN IF n = 0 THEN 0 ELSE (item.cost * Scale) \div n

\* How often name u occurs in sequence s (forEach debits once per occurrence).
Occurrences(s, u) == Cardinality({i \in DOMAIN s : s[i] = u})

\* paidTotals after the expenses loop (whole units).
RECURSIVE PaidLoop(_, _, _)
PaidLoop(paid, es, tripUsers) ==
    IF es = <<>> THEN paid
    ELSE LET item == Head(es)
             next == IF item.payer \in DOMAIN paid
                     THEN [paid EXCEPT ![item.payer] = @ + item.cost]
                     ELSE paid
         IN PaidLoop(next, Tail(es), tripUsers)

RECURSIVE PaidLoopSharedOnly(_, _, _)
PaidLoopSharedOnly(paid, es, tripUsers) ==
    IF es = <<>> THEN paid
    ELSE LET item == Head(es)
             next == IF item.payer \in DOMAIN paid /\ ~IsPrivate(item, tripUsers)
                     THEN [paid EXCEPT ![item.payer] = @ + item.cost]
                     ELSE paid
         IN PaidLoopSharedOnly(next, Tail(es), tripUsers)

paidTotalsSharedOnly(expenses, tripUsers) ==
    PaidLoopSharedOnly([u \in Range(allParticipants(expenses, tripUsers)) |-> 0],
                       expenses, tripUsers)
paidTotalsOf(expenses, tripUsers) ==
    PaidLoop([u \in Range(allParticipants(expenses, tripUsers)) |-> 0],
             expenses, tripUsers)

\* balances after the expenses loop (1/Scale units).
RECURSIVE BalanceLoop(_, _, _)
BalanceLoop(bal, es, tripUsers) ==
    IF es = <<>> THEN bal
    ELSE LET item == Head(es)
             b == beneficiaries(item, tripUsers)
             split == splitAmount(item, tripUsers)
             credited == IF item.payer \in DOMAIN bal
                         THEN [bal EXCEPT ![item.payer] = @ + item.cost * Scale]
                         ELSE bal
             debited == [u \in DOMAIN bal |->
                            credited[u] - split * Occurrences(b, u)]
         IN IF IsPrivate(item, tripUsers)
            THEN BalanceLoop(bal, Tail(es), tripUsers)
            ELSE BalanceLoop(debited, Tail(es), tripUsers)

balancesOf(expenses, tripUsers) ==
    BalanceLoop([u \in Range(allParticipants(expenses, tripUsers)) |-> 0],
                expenses, tripUsers)

\* debtData: Object.entries(balances), in key insertion order.
debtData(expenses, tripUsers) ==
    LET order == allParticipants(expenses, tripUsers)
        bal == balancesOf(expenses, tripUsers)
    IN [i \in DOMAIN order |-> [name |-> order[i], balance |-> bal[order[i]]]]

\* Array.prototype.sort is stable: entries that compare equal keep their
\* relative order.  sign = 1 sorts by balance ascending (a.balance - b.balance),
\* sign = -1 descending (b.balance - a.balance).
RECURSIVE StableSortByBalance(_, _)
StableSortByBalance(s, sign) ==
    IF s = <<>> THEN <<>>
    ELSE LET front == SubSeq(s, 1, Len(s) - 1)
             x == s[Len(s)]
             sorted == StableSortByBalance(front, sign)
             k == Cardinality({i \in DOMAIN sorted :
                                 sign * sorted[i].balance <= sign * x.balance})
         IN SubSeq(sorted, 1, k) \o <<x>> \o SubSeq(sorted, k + 1, Len(sorted))

IsDebtor(d) == d.balance < -Scale
IsCreditor(d) == d.balance > Scale

debtorsOf(data) == StableSortByBalance(SelectSeq(data, IsDebtor), 1)
creditorsOf(data) == StableSortByBalance(SelectSeq(data, IsCreditor), -1)

\* One recorded suggestion of the sweep.
SuggestionReversed(debtor, creditor, amount) ==
    [from |-> creditor.name, to |-> debtor.name, amount |-> MathRound(amount)]
Suggestion(debtor, creditor, amount) ==
    [from |-> debtor.name, to |-> creditor.name, amount |-> MathRound(amount)]

\* The greedy two-pointer sweep (the while loop).
RECURSIVE Sweep(_, _, _, _, _, _, _)
Sweep(debtors, creditors, i, j, dBalances, cBalances, suggestions) ==
    IF ~(i <= Len(debtors) /\ j <= Len(creditors)) THEN suggestions
    ELSE LET debt == Abs(dBalances[i])
             credit == cBalances[j]
             amount == Min(debt, credit)
             pushed == IF amount > Scale
                       THEN Append(suggestions,
                                   Suggestion(debtors[i], creditors[j], amount))
                       ELSE suggestions
             dNext == [dBalances EXCEPT ![i] = @ + amount]
             cNext == [cBalances EXCEPT ![j] = @ - amount]
             iNext == IF Abs(dNext[i]) < Scale THEN i + 1 ELSE i
             jNext == IF cNext[j] < Scale THEN j + 1 ELSE j
         IN Sweep(debtors, creditors, iNext, jNext, dNext, cNext, pushed)

\* A settlement that does not net the debts: one suggestion per expense and
\* beneficiary other than the payer.
RECURSIVE PerExpenseSuggestions(_, _)
PerExpenseSuggestions(es, tripUsers) ==
    IF es = <<>> THEN <<>>
    ELSE LET item == Head(es)
             NotPayer(u) == u # item.payer
             b == SelectSeq(beneficiaries(item, tripUsers), NotPayer)
         IN [k \in DOMAIN b |->
                [from |-> b[k], to |-> item.payer,
                 amount |-> MathRound(splitAmount(item, tripUsers))]]
            \o PerExpenseSuggestions(Tail(es), tripUsers)

suggestionsUnnetted(expenses, tripUsers) ==
    PerExpenseSuggestions(expenses, tripUsers)
suggestionsOf(expenses, tripUsers) ==
    LET data == debtData(expenses, tripUsers)
        debtors == debtorsOf(data)
        creditors == creditorsOf(data)
    IN Sweep(debtors, creditors, 1, 1,
             [k \in DOMAIN debtors |-> debtors[k].balance],
             [k \in DOMAIN creditors |-> creditors[k].balance],
             <<>>)

\* Everything SettleView derives from its props.
computeSettlement(expenses, tripUsers) ==
    [participants |-> allParticipants(expenses, tripUsers),
     paidTotals   |-> paidTotalsOf(expenses, tripUsers),
     balances     |-> balancesOf(expenses, tripUsers),
     suggestions  |-> suggestionsOf(expenses, tripUsers)]

\* ------------------------------------------------------------------------
\* safeMigrateExpenses: legacy expense migration
\* ------------------------------------------------------------------------

\* types.ts: the initial roster.
DEFAULT_TRIP_USERS == <<"Me">>

\* One element of items.map(...).  A stored record's missing (or empty)
\* payer is "", its missing, non-array or empty splitBy is <<>>, its missing
\* isShared is FALSE; the spread keeps every other field.
migrateItemFromFlag(item) ==
    LET payer == IF item.payer # "" THEN item.payer ELSE "Me"
    IN [item EXCEPT !.payer = payer,
                    !.splitBy = IF item.isShared THEN DEFAULT_TRIP_USERS
                                ELSE <<payer>>]
migrateItem(item) ==
    LET payer == IF item.payer # "" THEN item.payer ELSE "Me"
        splitBy == IF Len(item.splitBy) > 0 THEN item.splitBy
                   ELSE IF item.isShared THEN DEFAULT_TRIP_USERS ELSE <<payer>>
    IN [item EXCEPT !.payer = payer, !.splitBy = splitBy]

\* safeMigrateExpenses on a parsed JSON value [isArray, items].
safeMigrateExpenses(value) ==
    IF ~value.isArray THEN <<>>
    ELSE [i \in DOMAIN value.items |-> migrateItem(value.items[i])]

\* ------------------------------------------------------------------------
\* App: storage, remote store and firebase service (pure parts)
\* ------------------------------------------------------------------------

\* Names on the synchronised roster.
SyncNames == {"Me", "A", "B"}

\* Names checked in on this device (LoginView).
LoginNames == {"A"}

\* Names passed to handleAddTripUser.
TypedNames == {"", " ", "B"}

\* Names passed to handleRemoveTripUser.
RemovedNames == SyncNames \cup {"", " "}

\* Itinerary item ids and expense ids in use.
MaxItems == 1
MaxExpenseIds == 1

\* Handler calls whose remote writes can be in flight at once.
MaxPendingCalls == 1

\* Page loads after the first one.
MaxReloads == 1

ItemIds == 1..MaxItems
ExpenseIds == 1..MaxExpenseIds

ItineraryItems == [id : ItemIds, title : {"t1"}]

\* Expenses as ToolView hands them to handleExpensesChange.
SyncExpenseInputs ==
    {[id |-> i, payer |-> "A", cost |-> 3, isShared |-> FALSE, splitBy |-> <<"A">>] :
        i \in ExpenseIds}

\* user === null
NoUser == "null"

\* localStorage values: a missing key, a JSON text, a text that is not JSON.
Absent == [kind |-> "absent"]
Corrupt == [kind |-> "corrupt"]
JSONstringify(v) == [kind |-> "json", value |-> v]
JSONparses(text) == text.kind = "json"
JSONparse(text) == text.value

\* localStorage after clear(); the fields stand for the keys seoul-trip-user,
\* seoul-trip-users, seoul-trip-itinerary, seoul-tool-expenses,
\* seoul-firebase-config, seoul-exchange-rate and seoul-trip-weather.
EmptyStorage == [user |-> Absent, users |-> Absent, itinerary |-> Absent,
                 expenses |-> Absent, config |-> Absent, rate |-> Absent,
                 weather |-> Absent]

\* The built-in exchange rate 0.0235, in units of 0.0001, and the rate an
\* earlier session stored.
DefaultRate == 235
StoredRate == 240

\* exchangeRate's initialiser: parseFloat of the stored text, the default for
\* a missing key and for NaN.
InitialExchangeRate(ls) ==
    IF ls.rate.kind = "json" THEN JSONparse(ls.rate) ELSE DefaultRate

\* PlanView's built-in forecast, and a forecast fetched by an earlier session.
INITIAL_DATES == <<"cloudy">>
StoredDates == <<"snow">>

YOUR_FIREBASE_CONFIG == [apiKey |-> "AIzaSyB", projectId |-> "koreafinalhope"]

\* A configuration saved by the manual entry of CloudConfigModal.
SavedConfig == [apiKey |-> "saved-key", projectId |-> "saved-project"]

\* What initializeApp / getFirestore do: succeed, or one of them throws.
LibOutcomes == {"ok", "throwApp", "throwDb"}

\* The module state of services/firebase after a fresh page load.
NoFirebase == [app |-> FALSE, db |-> FALSE]

\* initFirebase(config) on module state fb: the boolean it returns and the
\* module state it leaves.
initFirebase(config, fb, lib) ==
    IF config.apiKey = "" THEN [result |-> FALSE, fb |-> fb]
    ELSE IF fb.app THEN [result |-> TRUE, fb |-> fb]
    ELSE IF lib = "throwApp" THEN [result |-> FALSE, fb |-> fb]
    ELSE IF lib = "throwDb" THEN [result |-> FALSE, fb |-> [fb EXCEPT !.app = TRUE]]
    ELSE [result |-> TRUE, fb |-> [app |-> TRUE, db |-> TRUE]]

\* useState initialiser of user: the saved identity, if it parses.
InitialUser(ls) ==
    IF ls.user.kind = "absent" THEN NoUser
    ELSE IF JSONparses(ls.user) THEN JSONparse(ls.user).name
    ELSE NoUser

\* name.trim()
Trim(name) == IF name = " " THEN "" ELSE name

\* The remote documents of the trip.
NoUsersDoc == [exists |-> FALSE, list |-> <<>>]
UsersDoc(list) == [exists |-> TRUE, list |-> list]
EmptyRemote == [users |-> NoUsersDoc, itinerary |-> <<>>, expenses |-> <<>>]

\* arrayUnion / arrayRemove on an array field.
arrayUnion(list, name) ==
    IF name \in Range(list) THEN list ELSE Append(list, name)
arrayRemove(list, name) ==
    LET NotName(x) == x # name IN SelectSeq(list, NotName)

\* setDoc / deleteDoc on a collection, documents in id order.
DeleteDoc(docs, id) ==
    LET NotId(d) == d.id # id IN SelectSeq(docs, NotId)
UpsertDoc(docs, doc) ==
    LET Before(d) == d.id < doc.id
        After(d) == d.id > doc.id
    IN SelectSeq(docs, Before) \o <<doc>> \o SelectSeq(docs, After)

\* One write applied to the remote documents.  updateDoc needs the document
\* to exist; setDoc with merge creates it.
ApplyOp(r, op) ==
    CASE op.op = "arrayUnion" ->
           IF r.users.exists
           THEN [r EXCEPT !.users = UsersDoc(arrayUnion(r.users.list, op.name))]
           ELSE r
      [] op.op = "arrayRemove" ->
           IF r.users.exists
           THEN [r EXCEPT !.users = UsersDoc(arrayRemove(r.users.list, op.name))]
           ELSE r
      [] op.op = "initUsers" -> [r EXCEPT !.users = UsersDoc(<<"Me">>)]
      [] op.op = "setExpense" -> [r EXCEPT !.expenses = UpsertDoc(r.expenses, op.doc)]
      [] op.op = "deleteExpense" -> [r EXCEPT !.expenses = DeleteDoc(r.expenses, op.id)]
      [] op.op = "setItinerary" -> [r EXCEPT !.itinerary = UpsertDoc(r.itinerary, op.doc)]
      [] op.op = "deleteItinerary" -> [r EXCEPT !.itinerary = DeleteDoc(r.itinerary, op.id)]

RECURSIVE ApplyAll(_, _)
ApplyAll(r, ops) ==
    IF ops = <<>> THEN r ELSE ApplyAll(ApplyOp(r, Head(ops)), Tail(ops))

\* loadLocalData: the setters it calls.  A key that does not parse throws
\* and ends the loading, except for the expenses, whose handler sets [].
NotSet == [set |-> FALSE, value |-> <<>>]
SetTo(v) == [set |-> TRUE, value |-> v]
loadLocalDataWithoutItinerary(ls) ==
    LET u == IF ls.users.kind = "json" THEN SetTo(JSONparse(ls.users)) ELSE NotSet
        e == IF ls.expenses.kind = "json"
             THEN SetTo(safeMigrateExpenses(
                     [isArray |-> TRUE, items |-> JSONparse(ls.expenses)]))
             ELSE NotSet
    IN [users |-> u, itinerary |-> NotSet, expenses |-> e]

loadLocalData(ls) ==
    LET u == IF ls.users.kind = "json" THEN SetTo(JSONparse(ls.users)) ELSE NotSet
        uThrows == ls.users.kind = "corrupt"
        i == IF ~uThrows /\ ls.itinerary.kind = "json"
             THEN SetTo(JSONparse(ls.itinerary)) ELSE NotSet
        iThrows == uThrows \/ ls.itinerary.kind = "corrupt"
        e == IF iThrows \/ ls.expenses.kind = "absent" THEN NotSet
             ELSE IF ls.expenses.kind = "corrupt" THEN SetTo(<<>>)
             ELSE SetTo(safeMigrateExpenses(
                     [isArray |-> TRUE, items |-> JSONparse(ls.expenses)]))
    IN [users |-> u, itinerary |-> i, expenses |-> e]

\* The startup decision of the initialisation effect: load local data?
ShouldLoadLocalAlways(connected) == TRUE
ShouldLoadLocal(connected) == ~connected

\* The three guarded persistence effects, for the lists whose dependencies
\* changed in this render.
PersistEffectsUnguarded(ls, connected, tu, it, ex, changed) ==
    [ls EXCEPT
       !.itinerary = IF "itinerary" \in changed /\ Len(it) > 0
                     THEN JSONstringify(it) ELSE @,
       !.expenses = IF "expenses" \in changed /\ Len(ex) > 0
                    THEN JSONstringify(ex) ELSE @,
       !.users = IF "users" \in changed /\ Len(tu) > 0
                 THEN JSONstringify(tu) ELSE @]
PersistEffects(ls, connected, tu, it, ex, changed) ==
    [ls EXCEPT
       !.itinerary = IF "itinerary" \in changed /\ ~connected /\ Len(it) > 0
                     THEN JSONstringify(it) ELSE @,
       !.expenses = IF "expenses" \in changed /\ ~connected /\ Len(ex) > 0
                    THEN JSONstringify(ex) ELSE @,
       !.users = IF "users" \in changed /\ ~connected /\ Len(tu) > 0
                 THEN JSONstringify(tu) ELSE @]

\* The persistence effect of user.
PersistUser(ls, u) ==
    IF u # NoUser THEN [ls EXCEPT !.user = JSONstringify([name |-> u])] ELSE ls

\* finalizedItem of handleExpensesChange.
finalizedItem(item, tu) ==
    [item EXCEPT !.splitBy = IF Len(item.splitBy) > 0 THEN item.splitBy
                             ELSE IF item.isShared THEN tu ELSE <<item.payer>>]

\* ------------------------------------------------------------------------
\* State
\* ------------------------------------------------------------------------

VARIABLES
    props,      \* SettleView's props: [expenses, tripUsers]
    view,       \* what SettleView derived from props on its last render
    prevView,   \* what it derived on the render before a props change
    change,     \* the props change between prevView and view
    migration,  \* a parsed expense value and its first and second migration
    phase,      \* App: "boot", "mounted" (first effects ran), "running", "unloading"
    startup,    \* App: what the initialisation effect found and queued
    isCloudConnected,
    user,
    tripUsers,
    itinerary,
    expenses,
    localStorage,
    firebase,   \* services/firebase: [app, db] are set
    remote,     \* the remote documents of the trip
    outbox,     \* remote writes issued and not yet acknowledged
    subscribed, \* the snapshot listeners are attached
    announceArmed, \* the 1500 ms announce timer is pending
    loginTimer,    \* the name LoginView will pass to handleLogin, or NoUser
    resetPc,       \* handleDeleteUser: "idle", "awaitRemove", "awaitPhotos"
    kickPc,        \* the eviction callback: "idle", "awaitPhotos"
    reloads,       \* page loads after the first one
    photoDB,       \* utils/db: ids of the photo records in IndexedDB
    photos,        \* App: the photo list in memory, as [id, uploaded] records
    storage,       \* services/firebase: storage is set
    cloudPhotos,   \* the remote photo store: [docs, blobs], sets of photo ids
    photoPc,       \* the photo handler in progress, or PhotoIdle
    exchangeRate   \* App: the exchange rate in memory

settleVars == <<props, view, prevView, change>>
photoVars == <<photos, storage, cloudPhotos, photoPc>>
syncVars == <<phase, startup, isCloudConnected, user, tripUsers, itinerary,
              expenses, localStorage, firebase, remote, outbox, subscribed,
              announceArmed, loginTimer, resetPc, kickPc, reloads, photoDB,
              photos, storage, cloudPhotos, photoPc, exchangeRate>>
vars == <<props, view, prevView, change, migration, phase, startup,
          isCloudConnected, user, tripUsers, itinerary, expenses, localStorage,
          firebase, remote, outbox, subscribed, announceArmed, loginTimer,
          resetPc, kickPc, reloads, photoDB, photos, storage, cloudPhotos,
          photoPc, exchangeRate>>

\* No photo handler is in progress.
PhotoIdle == [op |-> "idle", id |-> "", step |-> ""]

\* The photo gallery is not in use and the exchange rate is the built-in one.
PhotosOff ==
    /\ photos = {}
    /\ storage = FALSE
    /\ cloudPhotos = [docs |-> {}, blobs |-> {}]
    /\ photoPc = PhotoIdle
    /\ exchangeRate = DefaultRate

\* The App is not in use.
NoStartup == [embedded |-> FALSE, savedTried |-> FALSE, saved |-> FALSE,
              connected |-> FALSE, loaded |-> FALSE,
              data |-> [users |-> NotSet, itinerary |-> NotSet, expenses |-> NotSet]]

\* The in-memory state of a freshly loaded page: useState's initial values
\* and the module state of services/firebase.
FreshPage ==
    /\ isCloudConnected' = FALSE
    /\ user' = NoUser
    /\ tripUsers' = DEFAULT_TRIP_USERS
    /\ itinerary' = <<>>
    /\ expenses' = <<>>
    /\ startup' = NoStartup
    /\ firebase' = NoFirebase
    /\ outbox' = <<>>
    /\ subscribed' = FALSE
    /\ announceArmed' = FALSE
    /\ loginTimer' = NoUser
    /\ resetPc' = "idle"
    /\ kickPc' = "idle"

SyncOff ==
    /\ phase = "off"
    /\ startup = NoStartup
    /\ isCloudConnected = FALSE
    /\ user = NoUser
    /\ tripUsers = DEFAULT_TRIP_USERS
    /\ itinerary = <<>>
    /\ expenses = <<>>
    /\ localStorage = EmptyStorage
    /\ firebase = NoFirebase
    /\ remote = EmptyRemote
    /\ outbox = <<>>
    /\ subscribed = FALSE
    /\ announceArmed = FALSE
    /\ loginTimer = NoUser
    /\ resetPc = "idle"
    /\ kickPc = "idle"
    /\ reloads = 0
    /\ photoDB = {}
    /\ PhotosOff

NoView == [participants |-> <<>>, paidTotals |-> <<>>, balances |-> <<>>,
           suggestions |-> <<>>]

\* Expenses as the App hands them to SettleView: every expense in the App's
\* state went through safeMigrateExpenses or handleExpensesChange, so it has
\* a payer and a non-empty splitBy; isShared is what ToolView records.
SplitChoices == DistinctSeqs(Names, 1, Cardinality(Names))

SettleExpenses ==
    {[payer |-> p, cost |-> c, splitBy |-> sb, isShared |-> Len(sb) > 1] :
        p \in Names, c \in Costs, sb \in SplitChoices}

ExpenseLists == UNION {[1..n -> SettleExpenses] : n \in 0..MaxExpenses}

Rosters == DistinctSeqs(Names, 0, Cardinality(Names))

\* The migration is not in use.
MigrationOff == [pc |-> "off", value |-> [isArray |-> TRUE, items |-> <<>>],
                 once |-> <<>>, twice |-> <<>>]

\* The settlement view is not in use.
SettleOff ==
    /\ props = [expenses |-> <<>>, tripUsers |-> <<>>]
    /\ view = NoView
    /\ prevView = NoView
    /\ change = [op |-> "off"]

SettleInit ==
    /\ props \in [expenses : ExpenseLists, tripUsers : Rosters]
    /\ view = NoView
    /\ prevView = NoView
    /\ change = [op |-> "mount"]
    /\ migration = MigrationOff
    /\ SyncOff

\* SettleView renders: the whole computation, from the current props.
Render ==
    /\ change.op = "mount"
    /\ view' = computeSettlement(props.expenses, props.tripUsers)
    /\ change' = [op |-> "render"]
    /\ UNCHANGED <<props, prevView, migration, syncVars>>

\* A private expense ({payer, splitBy: [payer]}) is appended, as
\* handleExpensesChange('add') does, and SettleView renders again.
AddPrivateExpense(p, c) ==
    /\ change.op = "render"
    /\ Len(props.expenses) < MaxExpenses
    /\ LET item == [payer |-> p, cost |-> c, splitBy |-> <<p>>, isShared |-> FALSE]
           es == Append(props.expenses, item)
       IN /\ props' = [props EXCEPT !.expenses = es]
          /\ view' = computeSettlement(es, props.tripUsers)
          /\ change' = [op |-> "addPrivate", item |-> item]
    /\ prevView' = view
    /\ UNCHANGED <<migration, syncVars>>

\* A name leaves the roster, as handleRemoveTripUser does, and SettleView
\* renders again.
RemoveRosterName(u) ==
    /\ change.op = "render"
    /\ u \in Range(props.tripUsers)
    /\ LET NotU(x) == x # u
           roster == SelectSeq(props.tripUsers, NotU)
       IN /\ props' = [props EXCEPT !.tripUsers = roster]
          /\ view' = computeSettlement(props.expenses, roster)
          /\ change' = [op |-> "removeName", name |-> u]
    /\ prevView' = view
    /\ UNCHANGED <<migration, syncVars>>

SettleNext ==
    \/ Render
    \/ \E p \in Names, c \in Costs : AddPrivateExpense(p, c)
    \/ \E u \in Names : RemoveRosterName(u)

SettleSpec == SettleInit /\ [][SettleNext]_vars

\* ------------------------------------------------------------------------
\* Migration on read
\* ------------------------------------------------------------------------

\* Expense records as they may sit in local storage or in the remote store:
\* written by this version (payer and splitBy), by a version before splitBy
\* (isShared only), or lacking the payer the migration defends against.
StoredPayers == {"", "A", "Me"}

StoredSplits == {<<>>, <<"A">>, <<"A", "B">>}

StoredExpenses ==
    [payer : StoredPayers, cost : {100}, splitBy : StoredSplits, isShared : BOOLEAN]

StoredValues ==
    {[isArray |-> TRUE, items |-> items] :
        items \in UNION {[1..n -> StoredExpenses] : n \in 0..MaxExpenses}}
    \cup {[isArray |-> FALSE, items |-> <<>>]}

MigrateInit ==
    /\ migration \in {[pc |-> "parsed", value |-> v, once |-> <<>>, twice |-> <<>>] :
                         v \in StoredValues}
    /\ SettleOff
    /\ SyncOff

\* The value is read and migrated (loadLocalData, the expenses subscription).
MigrateOnRead ==
    /\ migration.pc = "parsed"
    /\ migration' = [migration EXCEPT !.pc = "migrated",
                                      !.once = safeMigrateExpenses(migration.value)]
    /\ UNCHANGED <<settleVars, syncVars>>

\* The migrated list is migrated again (it was persisted and read back).
MigrateAgain ==
    /\ migration.pc = "migrated"
    /\ migration' = [migration EXCEPT
           !.pc = "remigrated",
           !.twice = safeMigrateExpenses([isArray |-> TRUE, items |-> migration.once])]
    /\ UNCHANGED <<settleVars, syncVars>>

MigrateNext == MigrateOnRead \/ MigrateAgain

MigrateSpec == MigrateInit /\ [][MigrateNext]_vars

\* ------------------------------------------------------------------------
\* App: startup
\* ------------------------------------------------------------------------

AllLists == {"users", "itinerary", "expenses"}

\* A device that never ran the app, or one holding a configuration saved by
\* the manual entry; the trip's users document is missing or holds a roster.
SavedConfigTexts == {Absent, JSONstringify(SavedConfig)}

InitialRosters == {NoUsersDoc, UsersDoc(<<"Me">>), UsersDoc(<<"B">>)}

Init ==
    /\ phase = "boot"
    /\ startup = NoStartup
    /\ isCloudConnected = FALSE
    /\ user = NoUser
    /\ tripUsers = DEFAULT_TRIP_USERS
    /\ itinerary = <<>>
    /\ expenses = <<>>
    /\ localStorage \in {[EmptyStorage EXCEPT !.config = c] : c \in SavedConfigTexts}
    /\ firebase = NoFirebase
    /\ remote \in {[EmptyRemote EXCEPT !.users = u] : u \in InitialRosters}
    /\ outbox = <<>>
    /\ subscribed = FALSE
    /\ announceArmed = FALSE
    /\ loginTimer = NoUser
    /\ resetPc = "idle"
    /\ kickPc = "idle"
    /\ reloads = 0
    /\ photoDB = {}
    /\ PhotosOff
    /\ SettleOff
    /\ migration = MigrationOff

otherVars == <<props, view, prevView, change, migration, photoDB, photoVars,
               exchangeRate>>

\* The first commit: user's initialiser, then the effects in declaration
\* order with the initial state (isCloudConnected false, tripUsers ['Me'],
\* empty lists).  The initialisation effect queues its state updates; the
\* persistence effects of this render still see the initial state.
Mount(lib1, lib2) ==
    /\ phase = "boot"
    /\ LET u0 == InitialUser(localStorage)
           hasKeys == YOUR_FIREBASE_CONFIG.apiKey # ""
           r1 == IF hasKeys THEN initFirebase(YOUR_FIREBASE_CONFIG, firebase, lib1)
                 ELSE [result |-> FALSE, fb |-> firebase]
           saved == localStorage.config
           tried == ~r1.result /\ saved.kind # "absent"
           r2 == IF tried /\ JSONparses(saved)
                 THEN initFirebase(JSONparse(saved), r1.fb, lib2)
                 ELSE [result |-> FALSE, fb |-> r1.fb]
           connected == r1.result \/ r2.result
           load == ShouldLoadLocal(connected)
       IN /\ user' = u0
          /\ firebase' = r2.fb
          /\ startup' = [embedded |-> r1.result, savedTried |-> tried,
                         saved |-> r2.result, connected |-> connected,
                         loaded |-> load,
                         data |-> IF load THEN loadLocalData(localStorage)
                                  ELSE NoStartup.data]
          /\ localStorage' = PersistEffects(PersistUser(localStorage, u0),
                                 isCloudConnected, tripUsers, itinerary, expenses,
                                 AllLists)
    /\ exchangeRate' = InitialExchangeRate(localStorage)
    /\ phase' = "mounted"
    /\ UNCHANGED <<isCloudConnected, tripUsers, itinerary, expenses, remote, outbox,
                   subscribed, announceArmed, loginTimer, resetPc, kickPc, settleVars,
                   migration, photoDB, photoVars, reloads>>

\* The render with the queued updates applied, and its effects: the
\* subscriptions, the announce timer, the persistence of what changed.
Rerender ==
    /\ phase = "mounted"
    /\ LET d == startup.data
           tu == IF d.users.set THEN d.users.value ELSE tripUsers
           it == IF d.itinerary.set THEN d.itinerary.value ELSE itinerary
           ex == IF d.expenses.set THEN d.expenses.value ELSE expenses
           changed == IF startup.connected THEN AllLists
                      ELSE {k \in AllLists : d[k].set}
       IN /\ isCloudConnected' = startup.connected
          /\ tripUsers' = tu
          /\ itinerary' = it
          /\ expenses' = ex
          /\ localStorage' = PersistEffects(localStorage, startup.connected,
                                            tu, it, ex, changed)
    /\ subscribed' = (startup.connected /\ firebase.db)
    /\ announceArmed' = (startup.connected /\ user # NoUser)
    /\ startup' = NoStartup
    /\ phase' = "running"
    /\ UNCHANGED <<user, firebase, remote, outbox, loginTimer, resetPc, kickPc,
                   otherVars, reloads>>

\* The page is loaded anew (by the user, or by window.location.reload()).
Reload ==
    /\ phase \in {"running", "unloading"}
    /\ reloads < MaxReloads
    /\ reloads' = reloads + 1
    /\ phase' = "boot"
    /\ FreshPage
    /\ UNCHANGED <<localStorage, remote, otherVars>>

\* ------------------------------------------------------------------------
\* App: remote store
\* ------------------------------------------------------------------------

OpUnion(name) == [op |-> "arrayUnion", name |-> name, awaited |-> FALSE]
OpRemove(name, awaited) == [op |-> "arrayRemove", name |-> name, awaited |-> awaited]
OpInitUsers == [op |-> "initUsers", awaited |-> FALSE]
OpSetExpense(doc) == [op |-> "setExpense", doc |-> doc, awaited |-> FALSE]
OpDeleteExpense(id) == [op |-> "deleteExpense", id |-> id, awaited |-> FALSE]
OpSetItinerary(doc) == [op |-> "setItinerary", doc |-> doc, awaited |-> FALSE]
OpDeleteItinerary(id) == [op |-> "deleteItinerary", id |-> id, awaited |-> FALSE]

\* The writes of one handler call, the last one marked.
Pending(ops) == [k \in DOMAIN ops |-> [write |-> ops[k], last |-> k = Len(ops)]]
PendingCalls == Cardinality({k \in DOMAIN outbox : outbox[k].last})
PendingWrites == [k \in DOMAIN outbox |-> outbox[k].write]

\* The sync* functions return at once when db is not set.
Issue(ops) == IF firebase.db THEN outbox \o Pending(ops) ELSE outbox
CanIssue == ~firebase.db \/ PendingCalls < MaxPendingCalls

\* What a snapshot listener is given: the remote documents with this
\* client's pending writes applied.
LocalView == ApplyAll(remote, PendingWrites)

\* The oldest pending write reaches the remote store.
RemoteApply ==
    /\ phase # "off"
    /\ outbox # <<>>
    /\ remote' = ApplyOp(remote, Head(outbox).write)
    /\ outbox' = Tail(outbox)
    /\ UNCHANGED <<phase, startup, isCloudConnected, user, tripUsers, itinerary,
                   expenses, localStorage, firebase, subscribed, announceArmed,
                   loginTimer, resetPc, kickPc, otherVars, reloads>>

\* A rejection that takes the optimistic expense back out of the list.
RemoteFailRollsBack ==
    /\ phase # "off"
    /\ outbox # <<>>
    /\ outbox' = Tail(outbox)
    /\ expenses' = IF Head(outbox).write.op = "setExpense"
                   THEN DeleteDoc(expenses, Head(outbox).write.doc.id)
                   ELSE expenses
    /\ UNCHANGED <<phase, startup, isCloudConnected, user, tripUsers, itinerary,
                   localStorage, firebase, remote, subscribed,
                   announceArmed, loginTimer, resetPc, kickPc, otherVars, reloads>>

\* The oldest pending write is rejected; its promise is not handled.
RemoteFail ==
    /\ phase # "off"
    /\ outbox # <<>>
    /\ outbox' = Tail(outbox)
    /\ UNCHANGED <<phase, startup, isCloudConnected, user, tripUsers, itinerary,
                   expenses, localStorage, firebase, remote, subscribed,
                   announceArmed, loginTimer, resetPc, kickPc, otherVars, reloads>>

\* Another device adds or removes a roster name.
OtherDeviceAddsUser(name) ==
    /\ phase # "off"
    /\ remote.users.exists
    /\ remote' = [remote EXCEPT !.users = UsersDoc(arrayUnion(remote.users.list, name))]
    /\ UNCHANGED <<phase, startup, isCloudConnected, user, tripUsers, itinerary,
                   expenses, localStorage, firebase, outbox, subscribed,
                   announceArmed, loginTimer, resetPc, kickPc, otherVars, reloads>>

OtherDeviceRemovesUser(name) ==
    /\ phase # "off"
    /\ remote.users.exists
    /\ remote' = [remote EXCEPT !.users = UsersDoc(arrayRemove(remote.users.list, name))]
    /\ UNCHANGED <<phase, startup, isCloudConnected, user, tripUsers, itinerary,
                   expenses, localStorage, firebase, outbox, subscribed,
                   announceArmed, loginTimer, resetPc, kickPc, otherVars, reloads>>

\* The users listener fires: the roster is taken over, or the document is
\* created with ['Me'] when it has no users.
SnapshotUsers ==
    /\ phase = "running"
    /\ subscribed
    /\ IF LocalView.users.exists
       THEN /\ tripUsers' = LocalView.users.list
            /\ localStorage' = PersistEffects(localStorage, isCloudConnected,
                                   LocalView.users.list, itinerary, expenses, {"users"})
            /\ UNCHANGED outbox
       ELSE /\ PendingCalls < MaxPendingCalls
            /\ outbox' = outbox \o Pending(<<OpInitUsers>>)
            /\ UNCHANGED <<tripUsers, localStorage>>
    /\ UNCHANGED <<phase, startup, isCloudConnected, user, itinerary, expenses,
                   firebase, remote, subscribed, announceArmed, loginTimer,
                   resetPc, kickPc, otherVars, reloads>>

\* The expenses listener fires: the documents are migrated and taken over.
SnapshotExpenses ==
    /\ phase = "running"
    /\ subscribed
    /\ LET ex == safeMigrateExpenses([isArray |-> TRUE, items |-> LocalView.expenses])
       IN /\ expenses' = ex
          /\ localStorage' = PersistEffects(localStorage, isCloudConnected,
                                 tripUsers, itinerary, ex, {"expenses"})
    /\ UNCHANGED <<phase, startup, isCloudConnected, user, tripUsers, itinerary,
                   firebase, remote, outbox, subscribed, announceArmed,
                   loginTimer, resetPc, kickPc, otherVars, reloads>>

\* The itinerary listener fires.
SnapshotItinerary ==
    /\ phase = "running"
    /\ subscribed
    /\ itinerary' = LocalView.itinerary
    /\ localStorage' = PersistEffects(localStorage, isCloudConnected,
                           tripUsers, LocalView.itinerary, expenses, {"itinerary"})
    /\ UNCHANGED <<phase, startup, isCloudConnected, user, tripUsers, expenses,
                   firebase, remote, outbox, subscribed, announceArmed,
                   loginTimer, resetPc, kickPc, otherVars, reloads>>

\* ------------------------------------------------------------------------
\* App: handlers and timers
\* ------------------------------------------------------------------------

\* The handlers below are passed to Header, PlanView and ToolView, which App
\* renders only for a logged-in user.  No user input is taken in the moment
\* between a localStorage.clear() and the reload that follows the clearing of
\* the photo store.
HandlersMounted ==
    /\ phase = "running"
    /\ user # NoUser
    /\ resetPc # "awaitPhotos"
    /\ kickPc = "idle"

handleManualRefreshCloud ==
    /\ HandlersMounted
    /\ IF firebase.db /\ ~isCloudConnected
       THEN /\ isCloudConnected' = TRUE
            /\ subscribed' = TRUE
            /\ announceArmed' = TRUE
       ELSE UNCHANGED <<isCloudConnected, subscribed, announceArmed>>
    /\ UNCHANGED <<phase, startup, user, tripUsers, itinerary, expenses,
                   localStorage, firebase, remote, outbox, loginTimer, resetPc,
                   kickPc, otherVars, reloads>>

handleAddTripUser(name) ==
    /\ HandlersMounted
    /\ IF Trim(name) = ""
       THEN UNCHANGED <<tripUsers, localStorage, outbox>>
       ELSE IF isCloudConnected
       THEN /\ CanIssue
            /\ outbox' = Issue(<<OpUnion(name)>>)
            /\ UNCHANGED <<tripUsers, localStorage>>
       ELSE IF name \in Range(tripUsers)
       THEN UNCHANGED <<tripUsers, localStorage, outbox>>
       ELSE /\ tripUsers' = Append(tripUsers, name)
            /\ localStorage' = PersistEffects(localStorage, isCloudConnected,
                                   Append(tripUsers, name), itinerary, expenses,
                                   {"users"})
            /\ UNCHANGED outbox
    /\ UNCHANGED <<phase, startup, isCloudConnected, user, itinerary, expenses,
                   firebase, remote, subscribed, announceArmed, loginTimer,
                   resetPc, kickPc, otherVars, reloads>>

handleRemoveTripUser(name) ==
    /\ HandlersMounted
    /\ IF isCloudConnected
       THEN /\ CanIssue
            /\ outbox' = Issue(<<OpRemove(name, FALSE)>>)
            /\ UNCHANGED <<tripUsers, localStorage>>
       ELSE /\ tripUsers' = arrayRemove(tripUsers, name)
            /\ localStorage' = PersistEffects(localStorage, isCloudConnected,
                                   arrayRemove(tripUsers, name), itinerary, expenses,
                                   {"users"})
            /\ UNCHANGED outbox
    /\ UNCHANGED <<phase, startup, isCloudConnected, user, itinerary, expenses,
                   firebase, remote, subscribed, announceArmed, loginTimer,
                   resetPc, kickPc, otherVars, reloads>>

\* setItinerary's updater.
ItineraryAfter(prev, action, item) ==
    IF action = "delete" THEN DeleteDoc(prev, item.id)
    ELSE IF action = "add" THEN Append(prev, item)
    ELSE [k \in DOMAIN prev |-> IF prev[k].id = item.id THEN item ELSE prev[k]]

\* PlanView adds items under fresh ids and edits the items it shows.
PlanViewOffers(action, item) ==
    LET shown == {itinerary[k].id : k \in DOMAIN itinerary}
        known == {LocalView.itinerary[k].id : k \in DOMAIN LocalView.itinerary}
    IN IF action = "add" THEN item.id \notin shown \cup known
       ELSE item.id \in shown

\* A handler that mirrors the change in memory in connected sessions too.
handleItineraryChangeOptimistic(action, item) ==
    /\ HandlersMounted
    /\ PlanViewOffers(action, item)
    /\ itinerary' = ItineraryAfter(itinerary, action, item)
    /\ localStorage' = PersistEffects(localStorage, isCloudConnected,
                           tripUsers, ItineraryAfter(itinerary, action, item),
                           expenses, {"itinerary"})
    /\ IF isCloudConnected
       THEN /\ CanIssue
            /\ outbox' = Issue(<<IF action = "delete" THEN OpDeleteItinerary(item.id)
                                  ELSE OpSetItinerary(item)>>)
       ELSE UNCHANGED outbox
    /\ UNCHANGED <<phase, startup, isCloudConnected, user, tripUsers, expenses,
                   firebase, remote, subscribed, announceArmed, loginTimer,
                   resetPc, kickPc, otherVars, reloads>>

handleItineraryChange(action, item) ==
    /\ HandlersMounted
    /\ PlanViewOffers(action, item)
    /\ IF isCloudConnected
       THEN /\ CanIssue
            /\ outbox' = Issue(<<IF action = "delete" THEN OpDeleteItinerary(item.id)
                                  ELSE OpSetItinerary(item)>>)
            /\ UNCHANGED <<itinerary, localStorage>>
       ELSE /\ itinerary' = ItineraryAfter(itinerary, action, item)
            /\ localStorage' = PersistEffects(localStorage, isCloudConnected,
                                   tripUsers, ItineraryAfter(itinerary, action, item),
                                   expenses, {"itinerary"})
            /\ UNCHANGED outbox
    /\ UNCHANGED <<phase, startup, isCloudConnected, user, tripUsers, expenses,
                   firebase, remote, subscribed, announceArmed, loginTimer,
                   resetPc, kickPc, otherVars, reloads>>

\* An updater that appends without looking for the id.
ExpensesAfterAppending(prev, action, item) ==
    IF action = "delete" THEN DeleteDoc(prev, item.id)
    ELSE Append(prev, item)

\* setExpenses' updater (the optimistic update).
ExpensesAfter(prev, action, item) ==
    IF action = "delete" THEN DeleteDoc(prev, item.id)
    ELSE IF \E k \in DOMAIN prev : prev[k].id = item.id THEN prev
    ELSE Append(prev, item)

handleExpensesChange(action, item) ==
    /\ HandlersMounted
    /\ LET final == finalizedItem(item, tripUsers)
           ex == ExpensesAfter(expenses, action, final)
       IN /\ expenses' = ex
          /\ localStorage' = PersistEffects(localStorage, isCloudConnected,
                                 tripUsers, itinerary, ex, {"expenses"})
          /\ IF isCloudConnected
             THEN /\ CanIssue
                  /\ outbox' = Issue(<<IF action = "delete"
                                        THEN OpDeleteExpense(final.id)
                                        ELSE OpSetExpense(final)>>)
             ELSE UNCHANGED outbox
    /\ UNCHANGED <<phase, startup, isCloudConnected, user, tripUsers, itinerary,
                   firebase, remote, subscribed, announceArmed, loginTimer,
                   resetPc, kickPc, otherVars, reloads>>

\* LoginView.handleCheckIn: the identity is saved at once, handleLogin is
\* called 4500 ms later.
handleCheckIn(name) ==
    /\ phase = "running"
    /\ user = NoUser
    /\ loginTimer = NoUser
    /\ localStorage' = PersistUser(localStorage, name)
    /\ loginTimer' = name
    /\ UNCHANGED <<phase, startup, isCloudConnected, user, tripUsers, itinerary,
                   expenses, firebase, remote, outbox, subscribed, announceArmed,
                   resetPc, kickPc, otherVars, reloads>>

\* The local roster after a login: 'Me' leaves, the name joins.
RosterAfterLogin(prev, name) == arrayUnion(arrayRemove(prev, "Me"), name)

handleLogin ==
    /\ phase = "running"
    /\ loginTimer # NoUser
    /\ user' = loginTimer
    /\ loginTimer' = NoUser
    /\ IF isCloudConnected
       THEN /\ CanIssue
            /\ outbox' = Issue(<<OpUnion(loginTimer), OpRemove("Me", FALSE)>>)
            /\ localStorage' = PersistUser(localStorage, loginTimer)
            /\ UNCHANGED tripUsers
       ELSE /\ tripUsers' = RosterAfterLogin(tripUsers, loginTimer)
            /\ localStorage' = PersistEffects(PersistUser(localStorage, loginTimer),
                                   isCloudConnected,
                                   RosterAfterLogin(tripUsers, loginTimer),
                                   itinerary, expenses, {"users"})
            /\ UNCHANGED outbox
    /\ announceArmed' = IF loginTimer # user THEN isCloudConnected ELSE announceArmed
    /\ UNCHANGED <<phase, startup, isCloudConnected, itinerary, expenses, firebase,
                   remote, subscribed, resetPc, kickPc, otherVars, reloads>>

\* The announce timer fires.
AnnounceSelf ==
    /\ phase = "running"
    /\ announceArmed
    /\ CanIssue
    /\ outbox' = Issue(<<OpUnion(user), OpRemove("Me", FALSE)>>)
    /\ announceArmed' = FALSE
    /\ UNCHANGED <<phase, startup, isCloudConnected, user, tripUsers, itinerary,
                   expenses, localStorage, firebase, remote, subscribed, loginTimer,
                   resetPc, kickPc, otherVars, reloads>>

\* The condition under which the eviction timer is pending.
amIInList == user \in Range(tripUsers)
isDefaultList == Len(tripUsers) = 1 /\ tripUsers[1] = "Me"
\* An eviction timer armed without looking for the own name in the roster.
EvictionPendingForMembers ==
    /\ isCloudConnected
    /\ user # NoUser
    /\ Len(tripUsers) > 0
    /\ ~isDefaultList

EvictionPending ==
    /\ isCloudConnected
    /\ user # NoUser
    /\ Len(tripUsers) > 0
    /\ ~amIInList
    /\ ~isDefaultList

\* An eviction that also switched the session to local-only.
EvictionWipeDemotes ==
    /\ phase = "running"
    /\ kickPc = "idle"
    /\ EvictionPending
    /\ localStorage' = EmptyStorage
    /\ kickPc' = "awaitPhotos"
    /\ isCloudConnected' = FALSE
    /\ UNCHANGED <<phase, startup, user, tripUsers, itinerary, expenses, firebase,
                   remote, outbox, subscribed, announceArmed, loginTimer, resetPc,
                   otherVars, reloads>>

\* The eviction timer fires: localStorage.clear(), then the photos are
\* cleared, then the page reloads.
EvictionWipe ==
    /\ phase = "running"
    /\ kickPc = "idle"
    /\ EvictionPending
    /\ localStorage' = EmptyStorage
    /\ kickPc' = "awaitPhotos"
    /\ UNCHANGED <<phase, startup, isCloudConnected, user, tripUsers, itinerary,
                   expenses, firebase, remote, outbox, subscribed, announceArmed,
                   loginTimer, resetPc, otherVars, reloads>>

\* An eviction that reloads without clearing the photo store.
EvictionReloadKeepsPhotos ==
    /\ phase = "running"
    /\ kickPc = "awaitPhotos"
    /\ phase' = "unloading"
    /\ kickPc' = "idle"
    /\ UNCHANGED <<startup, isCloudConnected, user, tripUsers, itinerary, expenses,
                   localStorage, firebase, remote, outbox, subscribed,
                   announceArmed, loginTimer, resetPc, otherVars, reloads>>

EvictionReload ==
    /\ phase = "running"
    /\ kickPc = "awaitPhotos"
    /\ phase' = "unloading"
    /\ kickPc' = "idle"
    /\ photoDB' = {}
    /\ UNCHANGED <<startup, isCloudConnected, user, tripUsers, itinerary, expenses,
                   localStorage, firebase, remote, outbox, subscribed,
                   announceArmed, loginTimer, resetPc, settleVars, migration,
                   reloads, photoVars, exchangeRate>>

\* handleDeleteUser up to its first await: the removal of the own name when
\* connected, else straight to localStorage.clear().
handleDeleteUser ==
    /\ HandlersMounted
    /\ resetPc = "idle"
    /\ IF isCloudConnected /\ firebase.db
       THEN /\ CanIssue
            /\ outbox' = Issue(<<OpRemove(user, TRUE)>>)
            /\ resetPc' = "awaitRemove"
            /\ UNCHANGED localStorage
       ELSE /\ localStorage' = EmptyStorage
            /\ resetPc' = "awaitPhotos"
            /\ UNCHANGED outbox
    /\ UNCHANGED <<phase, startup, isCloudConnected, user, tripUsers, itinerary,
                   expenses, firebase, remote, subscribed, announceArmed,
                   loginTimer, kickPc, otherVars, reloads>>

\* The removal was acknowledged or rejected: localStorage.clear().
ResetWipe ==
    /\ phase = "running"
    /\ resetPc = "awaitRemove"
    /\ \A k \in DOMAIN outbox : ~outbox[k].write.awaited
    /\ localStorage' = EmptyStorage
    /\ resetPc' = "awaitPhotos"
    /\ UNCHANGED <<phase, startup, isCloudConnected, user, tripUsers, itinerary,
                   expenses, firebase, remote, outbox, subscribed, announceArmed,
                   loginTimer, kickPc, otherVars, reloads>>

\* A reset that leaves the photo records in IndexedDB.
ResetFinishKeepsPhotos(committed) ==
    /\ phase = "running"
    /\ resetPc = "awaitPhotos"
    /\ phase' = "unloading"
    /\ resetPc' = "idle"
    /\ photoDB' = photoDB
    /\ IF committed
       THEN /\ user' = NoUser
            /\ itinerary' = <<>>
            /\ expenses' = <<>>
            /\ tripUsers' = DEFAULT_TRIP_USERS
            /\ isCloudConnected' = FALSE
            /\ subscribed' = FALSE
            /\ announceArmed' = FALSE
            /\ localStorage' = PersistEffects(localStorage, FALSE, DEFAULT_TRIP_USERS,
                                   <<>>, <<>>, AllLists)
       ELSE UNCHANGED <<user, itinerary, expenses, tripUsers, isCloudConnected,
                        subscribed, announceArmed, localStorage>>
    /\ UNCHANGED <<startup, firebase, remote, outbox, loginTimer, kickPc,
                   settleVars, migration, reloads, photoVars, exchangeRate>>

\* The photos are cleared: the state is reset, isCloudConnected is set to
\* false and the page reloads.  The reset state is rendered, and its effects
\* run, only if the page lives long enough (committed).
ResetFinish(committed) ==
    /\ phase = "running"
    /\ resetPc = "awaitPhotos"
    /\ phase' = "unloading"
    /\ resetPc' = "idle"
    /\ photoDB' = {}
    /\ IF committed
       THEN /\ user' = NoUser
            /\ itinerary' = <<>>
            /\ expenses' = <<>>
            /\ tripUsers' = DEFAULT_TRIP_USERS
            /\ isCloudConnected' = FALSE
            /\ subscribed' = FALSE
            /\ announceArmed' = FALSE
            /\ localStorage' = PersistEffects(localStorage, FALSE, DEFAULT_TRIP_USERS,
                                   <<>>, <<>>, AllLists)
       ELSE UNCHANGED <<user, itinerary, expenses, tripUsers, isCloudConnected,
                        subscribed, announceArmed, localStorage>>
    /\ UNCHANGED <<startup, firebase, remote, outbox, loginTimer, kickPc,
                   settleVars, migration, reloads, photoVars, exchangeRate>>

Next ==
    \/ \E lib1, lib2 \in LibOutcomes : Mount(lib1, lib2)
    \/ Rerender
    \/ Reload
    \/ RemoteApply
    \/ RemoteFail
    \/ \E name \in {"B"} : OtherDeviceAddsUser(name)
    \/ \E name \in {"A"} : OtherDeviceRemovesUser(name)
    \/ SnapshotUsers
    \/ SnapshotExpenses
    \/ SnapshotItinerary
    \/ handleManualRefreshCloud
    \/ \E name \in TypedNames : handleAddTripUser(name)
    \/ \E name \in RemovedNames : handleRemoveTripUser(name)
    \/ \E action \in {"add", "update", "delete"}, item \in ItineraryItems :
          handleItineraryChange(action, item)
    \/ \E action \in {"add", "delete"}, item \in SyncExpenseInputs :
          handleExpensesChange(action, item)
    \/ \E name \in LoginNames : handleCheckIn(name)
    \/ handleLogin
    \/ AnnounceSelf
    \/ EvictionWipe
    \/ EvictionReload
    \/ handleDeleteUser
    \/ ResetWipe
    \/ \E committed \in BOOLEAN : ResetFinish(committed)

Spec == Init /\ [][Next]_vars

\* ------------------------------------------------------------------------
\* App: membership (login, announce, roster changes, eviction)
\* ------------------------------------------------------------------------

\* Names typed into LoginView, names other devices add to or remove from the
\* roster, and ids of photos.
RosterLoginNames == {"A", "Me"}
OtherDeviceNames == {"A", "B"}
PhotoIds == {"p1"}

\* handleSavePhoto: the photo goes to the cloud when the session is connected
\* and the upload succeeds; in every other case it is added to IndexedDB.
handleSavePhoto(id, savedToCloud) ==
    /\ HandlersMounted
    /\ savedToCloud => (isCloudConnected /\ firebase.db)
    /\ photoDB' = IF savedToCloud THEN photoDB ELSE photoDB \cup {id}
    /\ UNCHANGED <<phase, startup, isCloudConnected, user, tripUsers, itinerary,
                   expenses, localStorage, firebase, remote, outbox, subscribed,
                   announceArmed, loginTimer, resetPc, kickPc, settleVars,
                   migration, reloads, photoVars, exchangeRate>>

\* What an earlier local-only session of "A" left on the device: the identity,
\* the roster after the login, one itinerary item and one expense.
PriorLocalSession ==
    [user |-> JSONstringify([name |-> "A"]),
     users |-> JSONstringify(RosterAfterLogin(DEFAULT_TRIP_USERS, "A")),
     itinerary |-> JSONstringify(<<[id |-> 1, title |-> "t1"]>>),
     expenses |-> JSONstringify(<<[id |-> 1, payer |-> "A", cost |-> 3,
                                   isShared |-> FALSE, splitBy |-> <<"A">>]>>),
     config |-> Absent, rate |-> Absent, weather |-> Absent]

RosterInit ==
    /\ phase = "boot"
    /\ startup = NoStartup
    /\ isCloudConnected = FALSE
    /\ user = NoUser
    /\ tripUsers = DEFAULT_TRIP_USERS
    /\ itinerary = <<>>
    /\ expenses = <<>>
    /\ localStorage \in {EmptyStorage, PriorLocalSession}
    /\ firebase = NoFirebase
    /\ remote \in {[EmptyRemote EXCEPT !.users = u] : u \in InitialRosters}
    /\ outbox = <<>>
    /\ subscribed = FALSE
    /\ announceArmed = FALSE
    /\ loginTimer = NoUser
    /\ resetPc = "idle"
    /\ kickPc = "idle"
    /\ reloads = 0
    /\ photoDB = {}
    /\ PhotosOff
    /\ SettleOff
    /\ migration = MigrationOff

\* window.location.reload() takes effect.
ReloadCalled == phase = "unloading" /\ Reload

RosterNext ==
    \/ \E lib1, lib2 \in LibOutcomes : Mount(lib1, lib2)
    \/ Rerender
    \/ ReloadCalled
    \/ RemoteApply
    \/ RemoteFail
    \/ \E name \in OtherDeviceNames : OtherDeviceAddsUser(name)
    \/ \E name \in OtherDeviceNames : OtherDeviceRemovesUser(name)
    \/ SnapshotUsers
    \/ \E name \in RosterLoginNames : handleCheckIn(name)
    \/ handleLogin
    \/ AnnounceSelf
    \/ \E id \in PhotoIds, savedToCloud \in BOOLEAN : handleSavePhoto(id, savedToCloud)
    \/ EvictionWipe
    \/ EvictionReload

\* Timers fire, promises settle, listeners are called, a page load runs its
\* first commit and the render after it.  What the user and other devices
\* do, and when, is not constrained.
RosterFairness ==
    /\ WF_vars(\E lib1, lib2 \in LibOutcomes : Mount(lib1, lib2))
    /\ WF_vars(Rerender)
    /\ WF_vars(ReloadCalled)
    /\ WF_vars(RemoteApply \/ RemoteFail)
    /\ WF_vars(SnapshotUsers)
    /\ WF_vars(handleLogin)
    /\ WF_vars(AnnounceSelf)
    /\ WF_vars(EvictionWipe)
    /\ WF_vars(EvictionReload)

RosterSpec == RosterInit /\ [][RosterNext]_vars /\ RosterFairness

\* ------------------------------------------------------------------------
\* App: reading stored data (startup load, snapshot listeners)
\* ------------------------------------------------------------------------

\* An expense written before splitBy existed: isShared only.
LegacyExpense == [id |-> 1, payer |-> "A", cost |-> 3, isShared |-> TRUE,
                  splitBy |-> <<>>]

\* What the device may hold when the page loads: keys that are missing, that
\* hold what an earlier session wrote, or that hold a text JSON.parse rejects.
StoredStorages ==
    [user : {Absent, JSONstringify([name |-> "A"]), Corrupt},
     users : {Absent, JSONstringify(<<"A", "B">>), Corrupt},
     itinerary : {Absent, JSONstringify(<<[id |-> 1, title |-> "t1"]>>), Corrupt},
     expenses : {Absent, JSONstringify(<<LegacyExpense>>), Corrupt},
     config : {Absent},
     rate : {Absent, JSONstringify(StoredRate), Corrupt},
     weather : {Absent, JSONstringify(StoredDates), Corrupt}]

\* What the trip's remote documents may hold.
StoredRemotes ==
    [users : {UsersDoc(<<"A", "B">>)},
     itinerary : {<<>>},
     expenses : {<<>>, <<LegacyExpense>>}]

ReadInit ==
    /\ phase = "boot"
    /\ startup = NoStartup
    /\ isCloudConnected = FALSE
    /\ user = NoUser
    /\ tripUsers = DEFAULT_TRIP_USERS
    /\ itinerary = <<>>
    /\ expenses = <<>>
    /\ localStorage \in StoredStorages
    /\ firebase = NoFirebase
    /\ remote \in StoredRemotes
    /\ outbox = <<>>
    /\ subscribed = FALSE
    /\ announceArmed = FALSE
    /\ loginTimer = NoUser
    /\ resetPc = "idle"
    /\ kickPc = "idle"
    /\ reloads = 0
    /\ photoDB = {}
    /\ PhotosOff
    /\ SettleOff
    /\ migration = MigrationOff

\* PlanView is mounted (the plan tab is opened): the initialiser of dates
\* reads seoul-trip-weather with JSON.parse outside any try, and the effect
\* writes the dates back.  An error thrown while rendering, with no error
\* boundary around it, unmounts the application.
PlanViewMounts ==
    /\ phase = "running"
    /\ user # NoUser
    /\ IF localStorage.weather.kind = "corrupt"
       THEN /\ phase' = "crashed"
            /\ UNCHANGED localStorage
       ELSE /\ localStorage' =
                   [localStorage EXCEPT !.weather =
                       JSONstringify(IF @.kind = "absent" THEN INITIAL_DATES
                                     ELSE JSONparse(@))]
            /\ UNCHANGED phase
    /\ UNCHANGED <<startup, isCloudConnected, user, tripUsers, itinerary, expenses,
                   firebase, remote, outbox, subscribed, announceArmed, loginTimer,
                   resetPc, kickPc, otherVars, reloads>>

\* handleRateChange: ToolView sets a new rate.
handleRateChange(newRate) ==
    /\ HandlersMounted
    /\ exchangeRate' = newRate
    /\ localStorage' = [localStorage EXCEPT !.rate = JSONstringify(newRate)]
    /\ UNCHANGED <<phase, startup, isCloudConnected, user, tripUsers, itinerary,
                   expenses, firebase, remote, outbox, subscribed, announceArmed,
                   loginTimer, resetPc, kickPc, reloads, settleVars, migration,
                   photoDB, photoVars>>

ReadNext ==
    \/ \E lib1, lib2 \in LibOutcomes : Mount(lib1, lib2)
    \/ Rerender
    \/ Reload
    \/ RemoteApply
    \/ RemoteFail
    \/ SnapshotUsers
    \/ SnapshotExpenses
    \/ SnapshotItinerary
    \/ \E name \in LoginNames : handleCheckIn(name)
    \/ handleLogin
    \/ AnnounceSelf
    \/ PlanViewMounts
    \/ \E newRate \in {StoredRate} : handleRateChange(newRate)

ReadSpec == ReadInit /\ [][ReadNext]_vars

\* ------------------------------------------------------------------------
\* The photo gallery: handleSavePhoto and handleDeletePhoto step by step
\* ------------------------------------------------------------------------

GalleryIds == {"p1", "p2"}

\* A running session of "A": local-only, or connected with or without
\* Firebase Storage (getStorage may throw after getFirestore succeeded).
GallerySessions ==
    {[connected |-> FALSE, storage |-> FALSE],
     [connected |-> TRUE, storage |-> FALSE],
     [connected |-> TRUE, storage |-> TRUE]}

PhotoInit ==
    \E s \in GallerySessions :
        /\ phase = "running"
        /\ startup = NoStartup
        /\ isCloudConnected = s.connected
        /\ user = "A"
        /\ tripUsers = RosterAfterLogin(DEFAULT_TRIP_USERS, "A")
        /\ itinerary = <<>>
        /\ expenses = <<>>
        /\ localStorage = [EmptyStorage EXCEPT
               !.user = JSONstringify([name |-> "A"]),
               !.users = JSONstringify(IF s.connected THEN DEFAULT_TRIP_USERS
                             ELSE RosterAfterLogin(DEFAULT_TRIP_USERS, "A"))]
        /\ firebase = [app |-> s.connected, db |-> s.connected]
        /\ remote = [EmptyRemote EXCEPT
               !.users = IF s.connected
                         THEN UsersDoc(RosterAfterLogin(DEFAULT_TRIP_USERS, "A"))
                         ELSE NoUsersDoc]
        /\ outbox = <<>>
        /\ subscribed = s.connected
        /\ announceArmed = FALSE
        /\ loginTimer = NoUser
        /\ resetPc = "idle"
        /\ kickPc = "idle"
        /\ reloads = 0
        /\ photoDB = {}
        /\ photos = {}
        /\ storage = s.storage
        /\ cloudPhotos = [docs |-> {}, blobs |-> {}]
        /\ photoPc = PhotoIdle
        /\ exchangeRate = DefaultRate
        /\ SettleOff
        /\ migration = MigrationOff

galleryRest == <<phase, startup, isCloudConnected, user, tripUsers, itinerary,
                 expenses, localStorage, firebase, remote, outbox, subscribed,
                 announceArmed, loginTimer, resetPc, kickPc, reloads, settleVars,
                 migration, storage, exchangeRate>>

\* The ids in use: a new photo's id is the clock's value, later than all.
UsedPhotoIds == photoDB \cup cloudPhotos.docs \cup cloudPhotos.blobs
                \cup {p.id : p \in photos}

\* The end of handleSavePhoto when savedToCloud is false: the photo is put
\* in front of the list in memory and added to IndexedDB.
SaveLocally(id) ==
    /\ photos' = {p \in photos : p.id # id} \cup {[id |-> id, uploaded |-> FALSE]}
    /\ photoDB' = photoDB \cup {id}
    /\ photoPc' = PhotoIdle

\* handleSavePhoto up to its first await: the upload starts when the session
\* is connected and Storage is initialised, else the photo is saved locally.
handleSavePhotoCalled(id) ==
    /\ HandlersMounted
    /\ photoPc = PhotoIdle
    /\ id \notin UsedPhotoIds
    /\ IF isCloudConnected /\ storage
       THEN /\ photoPc' = [op |-> "upload", id |-> id, step |-> "uploadString"]
            /\ UNCHANGED <<photos, photoDB>>
       ELSE SaveLocally(id)
    /\ UNCHANGED <<cloudPhotos, galleryRest>>

\* uploadPhotoToCloud step 1: the image is written to Storage.
uploadString ==
    /\ photoPc.op = "upload"
    /\ photoPc.step = "uploadString"
    /\ cloudPhotos' = [cloudPhotos EXCEPT !.blobs = @ \cup {photoPc.id}]
    /\ photoPc' = [photoPc EXCEPT !.step = "getDownloadURL"]
    /\ UNCHANGED <<photos, photoDB, galleryRest>>

\* uploadPhotoToCloud step 2: the public URL is read.
getDownloadURL ==
    /\ photoPc.op = "upload"
    /\ photoPc.step = "getDownloadURL"
    /\ photoPc' = [photoPc EXCEPT !.step = "setDoc"]
    /\ UNCHANGED <<photos, photoDB, cloudPhotos, galleryRest>>

\* uploadPhotoToCloud step 3: the metadata is written; savedToCloud is true
\* and handleSavePhoto ends.
setPhotoDoc ==
    /\ photoPc.op = "upload"
    /\ photoPc.step = "setDoc"
    /\ cloudPhotos' = [cloudPhotos EXCEPT !.docs = @ \cup {photoPc.id}]
    /\ photoPc' = PhotoIdle
    /\ UNCHANGED <<photos, photoDB, galleryRest>>

\* The awaited step of uploadPhotoToCloud rejects: the error is rethrown,
\* caught by handleSavePhoto, and the photo is saved locally.  What the
\* earlier steps wrote stays.
UploadStepFails ==
    /\ photoPc.op = "upload"
    /\ SaveLocally(photoPc.id)
    /\ UNCHANGED <<cloudPhotos, galleryRest>>

\* The photos listener: the list in memory becomes the remote documents.
SnapshotPhotos ==
    /\ phase = "running"
    /\ isCloudConnected /\ firebase.db /\ storage
    /\ photos' = {[id |-> i, uploaded |-> TRUE] : i \in cloudPhotos.docs}
    /\ UNCHANGED <<photoDB, cloudPhotos, photoPc, galleryRest>>

\* handleDeletePhoto up to its first await: an uploaded photo of a connected
\* session with Storage is deleted remotely, any other one locally.
handleDeletePhoto(id) ==
    /\ HandlersMounted
    /\ photoPc = PhotoIdle
    /\ \E photo \in photos :
        /\ photo.id = id
        /\ IF isCloudConnected /\ storage /\ photo.uploaded
           THEN /\ photoPc' = [op |-> "delete", id |-> id, step |-> "deleteDoc"]
                /\ UNCHANGED <<photos, photoDB>>
           ELSE /\ photos' = {p \in photos : p.id # id}
                /\ photoDB' = photoDB \ {id}
                /\ photoPc' = PhotoIdle
    /\ UNCHANGED <<cloudPhotos, galleryRest>>

\* deletePhotoFromCloud: the metadata document is deleted.
deletePhotoDoc ==
    /\ photoPc.op = "delete"
    /\ photoPc.step = "deleteDoc"
    /\ cloudPhotos' = [cloudPhotos EXCEPT !.docs = @ \ {photoPc.id}]
    /\ photoPc' = [photoPc EXCEPT !.step = "deleteObject"]
    /\ UNCHANGED <<photos, photoDB, galleryRest>>

\* deleteDoc rejects: handleDeletePhoto catches the error and ends.
DeleteDocFails ==
    /\ photoPc.op = "delete"
    /\ photoPc.step = "deleteDoc"
    /\ photoPc' = PhotoIdle
    /\ UNCHANGED <<photos, photoDB, cloudPhotos, galleryRest>>

\* deletePhotoFromCloud: the image is deleted from Storage, or deleteObject
\* rejects and the error is swallowed.
deleteObject(done) ==
    /\ photoPc.op = "delete"
    /\ photoPc.step = "deleteObject"
    /\ cloudPhotos' = IF done THEN [cloudPhotos EXCEPT !.blobs = @ \ {photoPc.id}]
                      ELSE cloudPhotos
    /\ photoPc' = PhotoIdle
    /\ UNCHANGED <<photos, photoDB, galleryRest>>

PhotoNext ==
    \/ \E id \in GalleryIds : handleSavePhotoCalled(id)
    \/ uploadString
    \/ getDownloadURL
    \/ setPhotoDoc
    \/ UploadStepFails
    \/ SnapshotPhotos
    \/ \E id \in GalleryIds : handleDeletePhoto(id)
    \/ deletePhotoDoc
    \/ DeleteDocFails
    \/ \E done \in BOOLEAN : deleteObject(done)

PhotoSpec == PhotoInit /\ [][PhotoNext]_vars

\* ------------------------------------------------------------------------
\* App: the reset (handleDeleteUser) of a session that holds data
\* ------------------------------------------------------------------------

\* The device ran a local-only session of "A" before, and may hold a saved
\* configuration.
ResetInit ==
    /\ phase = "boot"
    /\ startup = NoStartup
    /\ isCloudConnected = FALSE
    /\ user = NoUser
    /\ tripUsers = DEFAULT_TRIP_USERS
    /\ itinerary = <<>>
    /\ expenses = <<>>
    /\ localStorage \in {[s EXCEPT !.config = c] :
                            s \in {EmptyStorage, PriorLocalSession},
                            c \in SavedConfigTexts}
    /\ firebase = NoFirebase
    /\ remote \in {[EmptyRemote EXCEPT !.users = u] : u \in InitialRosters}
    /\ outbox = <<>>
    /\ subscribed = FALSE
    /\ announceArmed = FALSE
    /\ loginTimer = NoUser
    /\ resetPc = "idle"
    /\ kickPc = "idle"
    /\ reloads = 0
    /\ photoDB = {}
    /\ PhotosOff
    /\ SettleOff
    /\ migration = MigrationOff

ResetNext ==
    \/ \E lib1, lib2 \in LibOutcomes : Mount(lib1, lib2)
    \/ Rerender
    \/ ReloadCalled
    \/ RemoteApply
    \/ RemoteFail
    \/ SnapshotUsers
    \/ \E name \in LoginNames : handleCheckIn(name)
    \/ handleLogin
    \/ AnnounceSelf
    \/ \E id \in PhotoIds, savedToCloud \in BOOLEAN : handleSavePhoto(id, savedToCloud)
    \/ handleDeleteUser
    \/ ResetWipe
    \/ \E committed \in BOOLEAN : ResetFinish(committed)

ResetSpec == ResetInit /\ [][ResetNext]_vars

\* The snapshot listeners that are attached: subscribeToUsers,
\* subscribeToExpenses and subscribeToItinerary attach one when db is set,
\* subscribeToPhotos when db and storage are set.
ActiveListeners ==
    IF subscribed
    THEN {"users", "expenses", "itinerary"} \cup (IF storage THEN {"photos"} ELSE {})
    ELSE {}

\* The lists a local-only page load puts in memory from localStorage ls:
\* what loadLocalData sets, and the initial state for what it does not set.
RestoredLists(ls) ==
    LET d == loadLocalData(ls)
    IN [tripUsers |-> IF d.users.set THEN d.users.value ELSE DEFAULT_TRIP_USERS,
        itinerary |-> IF d.itinerary.set THEN d.itinerary.value ELSE <<>>,
        expenses |-> IF d.expenses.set THEN d.expenses.value ELSE <<>>]

\* ------------------------------------------------------------------------
\* Settlement properties
\* ------------------------------------------------------------------------

Rendered == change.op # "mount"

TotalCost(es) == SumSeq([i \in DOMAIN es |-> es[i].cost])

SumByName(f, order) == SumSeq([i \in DOMAIN order |-> f[order[i]]])

\* Participants of a view whose balance is not zero.
NonZero(v) == {u \in DOMAIN v.balances : v.balances[u] # 0}

\* Suggestions of a view that name u as payer (from) or receiver (to).
PaysIn(v, u) == {k \in DOMAIN v.suggestions : v.suggestions[k].from = u}
ReceivesIn(v, u) == {k \in DOMAIN v.suggestions : v.suggestions[k].to = u}

RECURSIVE SumAmounts(_, _)
SumAmounts(v, ks) ==
    IF ks = {} THEN 0
    ELSE LET k == CHOOSE x \in ks : TRUE
         IN v.suggestions[k].amount + SumAmounts(v, ks \ {k})

\* u's net balance (1/Scale units) once every suggested transfer is paid.
Residual(v, u) ==
    v.balances[u] + Scale * SumAmounts(v, PaysIn(v, u))
                  - Scale * SumAmounts(v, ReceivesIn(v, u))

\* No two debtors and no two creditors of a view have the same balance.
NoTies(v) ==
    \A u, w \in DOMAIN v.balances :
        (u # w /\ Abs(v.balances[u]) > Scale) => v.balances[u] # v.balances[w]

\* C1: for every expense list and roster the paid totals sum to the sum of
\* all costs and the balances of all derived participants sum to zero.
C1_BalanceConservation ==
    Rendered =>
        /\ SumByName(view.paidTotals, view.participants) = TotalCost(props.expenses)
        /\ SumByName(view.balances, view.participants) = 0

\* A settlement of two expenses with a ghost participant and thirds.
C1_Witness ==
    /\ change.op = "render"
    /\ Len(props.expenses) = 2
    /\ \E u \in Range(view.participants) : u \notin Range(props.tripUsers)
    /\ \E u \in DOMAIN view.balances : view.balances[u] % Scale # 0

\* C2: appending an expense with splitBy = [payer] raises paidTotals[payer]
\* by its cost and leaves every balance and the transfer list unchanged (a
\* payer who was no participant before enters with balance 0).
C2_PrivateExpenseNeutral ==
    change.op = "addPrivate" =>
        LET p == change.item.payer
            paidBefore == IF p \in DOMAIN prevView.paidTotals
                          THEN prevView.paidTotals[p] ELSE 0
        IN /\ view.paidTotals[p] = paidBefore + change.item.cost
           /\ DOMAIN prevView.balances \subseteq DOMAIN view.balances
           /\ \A u \in DOMAIN view.balances :
                  view.balances[u] = IF u \in DOMAIN prevView.balances
                                     THEN prevView.balances[u] ELSE 0
           /\ view.suggestions = prevView.suggestions

\* A private expense added by a participant who already owes or is owed.
C2_Witness ==
    /\ change.op = "addPrivate"
    /\ change.item.payer \in DOMAIN prevView.balances
    /\ prevView.balances[change.item.payer] # 0
    /\ Len(prevView.suggestions) >= 1

\* C3 as stated: the number of transfers is at most the number of
\* participants with a non-zero balance, minus 1.
C3_Original ==
    Rendered => Len(view.suggestions) <= Cardinality(NonZero(view)) - 1

\* C3 amended: the number of transfers is at most the number of participants
\* with a non-zero balance minus 1 when some balance is non-zero, and zero
\* when every balance is zero.
C3_TransferCount ==
    Rendered =>
        IF NonZero(view) = {} THEN Len(view.suggestions) = 0
        ELSE Len(view.suggestions) <= Cardinality(NonZero(view)) - 1

\* Three unsettled participants and two transfers: the bound is met.
C3_Witness ==
    /\ Rendered
    /\ Cardinality(NonZero(view)) = 3
    /\ Len(view.suggestions) = 2

\* The removed name is a payer or a beneficiary, and every expense carries
\* splitBy.
GhostRemoval ==
    /\ change.op = "removeName"
    /\ \A i \in DOMAIN props.expenses : Len(props.expenses[i].splitBy) > 0
    /\ \E i \in DOMAIN props.expenses :
           \/ props.expenses[i].payer = change.name
           \/ change.name \in Range(props.expenses[i].splitBy)

\* C4 as stated: removing such a name from the roster leaves the ordered
\* list of {from, to, amount} unchanged.
C4_Original == GhostRemoval => view.suggestions = prevView.suggestions

\* C4 amended: the removal leaves every participant's balance unchanged and
\* the plan keeps its length, its sequence of amounts and the balances of
\* the two sides of each transfer; the ordered list is identical whenever no
\* two debtors and no two creditors have equal balances.
C4_GhostInclusion ==
    GhostRemoval =>
        /\ view.balances = prevView.balances
        /\ Len(view.suggestions) = Len(prevView.suggestions)
        /\ \A k \in DOMAIN view.suggestions :
               LET a == view.suggestions[k]
                   b == prevView.suggestions[k]
               IN /\ a.amount = b.amount
                  /\ view.balances[a.from] = prevView.balances[b.from]
                  /\ view.balances[a.to] = prevView.balances[b.to]
        /\ NoTies(prevView) => view.suggestions = prevView.suggestions

\* The removed name owes money in the plan, and no balances tie.
C4_Witness ==
    /\ GhostRemoval
    /\ NoTies(prevView)
    /\ \E k \in DOMAIN prevView.suggestions :
           prevView.suggestions[k].from = change.name

\* One expense of cost c paid by p and split among n >= 2 roster members
\* including p, with c/n > 1.
SingleSharedExpense ==
    /\ change.op = "render"
    /\ Len(props.expenses) = 1
    /\ LET e == props.expenses[1]
       IN /\ e.payer \in Range(e.splitBy)
          /\ Len(e.splitBy) >= 2
          /\ Range(e.splitBy) \subseteq Range(props.tripUsers)
          /\ e.cost > Len(e.splitBy)

\* The balances of that scenario: p is owed c*(n-1)/n, the others owe c/n.
SingleSharedBalances ==
    LET e == props.expenses[1]
        n == Len(e.splitBy)
    IN \A u \in Range(e.splitBy) :
          n * view.balances[u] =
              IF u = e.payer THEN Scale * e.cost * (n - 1) ELSE -(Scale * e.cost)

\* C6 as stated: the transfers are exactly one transfer of c/n from each
\* other beneficiary to p.
C6_Original ==
    SingleSharedExpense =>
        LET e == props.expenses[1]
            n == Len(e.splitBy)
        IN /\ SingleSharedBalances
           /\ Len(view.suggestions) = n - 1
           /\ \A u \in Range(e.splitBy) \ {e.payer} :
                  \E k \in DOMAIN view.suggestions :
                      /\ view.suggestions[k].from = u
                      /\ view.suggestions[k].to = e.payer
                      /\ n * view.suggestions[k].amount = e.cost

\* C6 amended: the balances are as stated, and the transfers are exactly one
\* transfer from each other beneficiary to p of c/n rounded to the nearest
\* whole unit (halves up).
C6_SingleSharedExpense ==
    SingleSharedExpense =>
        LET e == props.expenses[1]
            n == Len(e.splitBy)
        IN /\ SingleSharedBalances
           /\ Len(view.suggestions) = n - 1
           /\ \A u \in Range(e.splitBy) \ {e.payer} :
                  \E k \in DOMAIN view.suggestions :
                      LET a == view.suggestions[k].amount
                      IN /\ view.suggestions[k].from = u
                         /\ view.suggestions[k].to = e.payer
                         /\ 2 * n * a <= 2 * e.cost + n
                         /\ 2 * e.cost + n < 2 * n * a + 2 * n

\* A three-way split whose share is not a whole number.
C6_Witness ==
    /\ SingleSharedExpense
    /\ Len(props.expenses[1].splitBy) = 3
    /\ props.expenses[1].cost % 3 # 0

\* C7 as stated: after all suggested transfers every participant's remaining
\* balance is within 1 currency unit of zero.
C7_Original ==
    Rendered => \A u \in DOMAIN view.balances : Abs(Residual(view, u)) <= Scale

\* C7 amended: a participant within 1 unit of zero takes part in no
\* transfer; every other participant's remaining balance lies between its
\* balance and zero, overshooting zero by at most half a unit per transfer
\* it takes part in; and when at most two participants have a non-zero
\* balance every remaining balance is within 1 unit of zero.
C7_ResidualBounds ==
    Rendered =>
        \A u \in DOMAIN view.balances :
            LET b == view.balances[u]
                r == Residual(view, u)
                k == Cardinality(PaysIn(view, u) \cup ReceivesIn(view, u))
            IN /\ Abs(b) <= Scale => k = 0
               /\ b < -Scale => (ReceivesIn(view, u) = {} /\ b <= r /\ 2 * r <= k * Scale)
               /\ b > Scale => (PaysIn(view, u) = {} /\ r <= b /\ -(k * Scale) <= 2 * r)
               /\ Cardinality(NonZero(view)) <= 2 => Abs(r) <= Scale

\* A participant in two transfers whose remaining balance is not zero.
C7_Witness ==
    /\ Rendered
    /\ \E u \in DOMAIN view.balances :
           /\ Cardinality(PaysIn(view, u) \cup ReceivesIn(view, u)) = 2
           /\ Residual(view, u) # 0

\* ------------------------------------------------------------------------
\* Migration properties
\* ------------------------------------------------------------------------

\* C5 as stated: an expense that already carries a non-empty splitBy comes
\* back unchanged, and migrating twice equals migrating once.
C5_Original ==
    /\ migration.pc \in {"migrated", "remigrated"} =>
           \A i \in DOMAIN migration.value.items :
               Len(migration.value.items[i].splitBy) > 0 =>
                   migration.once[i] = migration.value.items[i]
    /\ migration.pc = "remigrated" => migration.twice = migration.once

\* C5 amended: an expense that already carries a non-empty splitBy and a
\* payer comes back unchanged; one with a non-empty splitBy and no payer
\* comes back with payer 'Me' and is otherwise unchanged; migrating twice
\* equals migrating once.
C5_IdempotentMigration ==
    /\ migration.pc \in {"migrated", "remigrated"} =>
           \A i \in DOMAIN migration.value.items :
               LET item == migration.value.items[i]
               IN Len(item.splitBy) > 0 =>
                      migration.once[i] =
                          IF item.payer # "" THEN item
                          ELSE [item EXCEPT !.payer = "Me"]
    /\ migration.pc = "remigrated" => migration.twice = migration.once

\* A list with a legacy shared record and a current record, migrated twice.
C5_Witness ==
    /\ migration.pc = "remigrated"
    /\ Len(migration.value.items) = 2
    /\ \E i \in DOMAIN migration.value.items :
           /\ migration.value.items[i].splitBy = <<>>
           /\ migration.value.items[i].isShared
    /\ \E i \in DOMAIN migration.value.items :
           /\ Len(migration.value.items[i].splitBy) = 2
           /\ migration.value.items[i].payer = "A"

\* ------------------------------------------------------------------------
\* Coordinator properties
\* ------------------------------------------------------------------------

\* The step is the last one of the explicit reset (handleDeleteUser).
ResetCompletes == resetPc = "awaitPhotos" /\ phase' = "unloading"

\* The step loads the page anew: a new session starts.
SessionEnds == phase' = "boot"

\* C8: once a session is cloud-connected it stays cloud-connected in every
\* later state of that session: the only step within a session that takes
\* isCloudConnected from true to false is the last step of the explicit
\* reset; no rejected remote write, roster change, snapshot or timer does.
C8_NoDemotion ==
    [][(isCloudConnected /\ ~isCloudConnected') => (ResetCompletes \/ SessionEnds)]_vars

\* A connected session whose roster lost the own name, whose announce timer
\* and eviction timer have fired, and which is still connected.
C8_Witness ==
    /\ phase = "running"
    /\ isCloudConnected
    /\ user = "A"
    /\ "A" \notin Range(tripUsers)
    /\ ~announceArmed
    /\ kickPc = "awaitPhotos"

\* A key of localStorage is set to a value by the step (not removed).
KeyWritten(k) == localStorage'[k] # localStorage[k] /\ localStorage'[k] # Absent

\* C9: one backend is authoritative.  The persisted itinerary, expense and
\* roster keys are written by effects only, which see the flag of the render
\* they follow: no step that renders the session cloud-connected sets one of
\* the three keys to a value (localStorage.clear() may remove them), and no
\* step taken while the session is local-only issues a remote write.
C9_SingleAuthority ==
    [][/\ isCloudConnected' => \A k \in AllLists : ~KeyWritten(k)
       /\ ~isCloudConnected => Len(outbox') <= Len(outbox)]_vars

\* A connected session holding an expense, an itinerary item and a synced
\* roster, none of which reached localStorage.
C9_Witness ==
    /\ phase = "running"
    /\ isCloudConnected
    /\ Len(expenses) > 0
    /\ Len(itinerary) > 0
    /\ tripUsers = <<"A", "B">>
    /\ localStorage.expenses = Absent
    /\ localStorage.itinerary = Absent
    /\ localStorage.users = JSONstringify(DEFAULT_TRIP_USERS)

\* What the startup reads from a persisted list key.
Persisted(text) == IF text.kind = "json" THEN SetTo(text.value) ELSE NotSet

\* The first commit of a page load, and the render that follows it.
StartupDecides == phase = "boot" /\ phase' = "mounted"
StartupRenders == phase = "mounted" /\ phase' = "running"

\* C10: at startup the session becomes cloud-connected if initFirebase of the
\* embedded configuration returns true, otherwise if a saved configuration
\* exists and its initFirebase returns true, and otherwise local-only; the
\* persisted roster, itinerary and expenses are loaded into memory if and
\* only if the session ended up local-only (a connected session starts from
\* ['Me'] and empty lists).
C10_StartupPriority ==
    [][/\ StartupDecides =>
            /\ startup'.embedded => firebase'.db
            /\ startup'.savedTried = (~startup'.embedded /\ localStorage.config # Absent)
            /\ startup'.saved => startup'.savedTried /\ firebase'.app
            /\ startup'.connected = (startup'.embedded \/ startup'.saved)
            /\ startup'.loaded = ~startup'.connected
            /\ startup'.data.users =
                  IF startup'.connected THEN NotSet ELSE Persisted(localStorage.users)
            /\ startup'.data.itinerary =
                  IF startup'.connected THEN NotSet ELSE Persisted(localStorage.itinerary)
            /\ startup'.data.expenses.set =
                  (~startup'.connected /\ localStorage.expenses # Absent)
       /\ StartupRenders =>
            /\ isCloudConnected' = startup.connected
            /\ tripUsers' = IF startup.data.users.set THEN startup.data.users.value
                            ELSE DEFAULT_TRIP_USERS
            /\ itinerary' = startup.data.itinerary.value
            /\ expenses' = startup.data.expenses.value]_vars

\* A startup whose embedded configuration failed and whose saved one
\* connected, with a persisted itinerary that is not loaded.
C10_Witness ==
    /\ phase = "mounted"
    /\ ~startup.embedded
    /\ startup.saved
    /\ startup.connected
    /\ ~startup.loaded
    /\ localStorage.itinerary # Absent
    /\ ~startup.data.itinerary.set

\* C11: in a local-only session, adding an itinerary item leaves a value
\* under the itinerary key that contains the item; a page load that ends
\* local-only leaves that value in place, reads it, and renders an in-memory
\* itinerary equal to it.
C11_LocalItineraryRoundTrip ==
    [][/\ \A item \in ItineraryItems :
            (~isCloudConnected /\ handleItineraryChange("add", item)) =>
                /\ localStorage'.itinerary.kind = "json"
                /\ item \in Range(localStorage'.itinerary.value)
                /\ item \in Range(itinerary')
       /\ (StartupDecides /\ ~startup'.connected) =>
            /\ localStorage'.itinerary = localStorage.itinerary
            /\ startup'.data.itinerary = Persisted(localStorage.itinerary)
       /\ (StartupRenders /\ ~startup.connected /\ localStorage.itinerary.kind = "json") =>
            /\ itinerary' = localStorage.itinerary.value
            /\ localStorage'.itinerary = localStorage.itinerary]_vars

\* A local-only session after a reload, showing the item persisted before it.
C11_Witness ==
    /\ phase = "running"
    /\ reloads > 0
    /\ ~isCloudConnected
    /\ Len(itinerary) > 0
    /\ localStorage.itinerary = JSONstringify(itinerary)

\* ------------------------------------------------------------------------
\* Membership properties
\* ------------------------------------------------------------------------

\* The session of u is connected and the roster it received last is the one
\* other person o: u was removed from the roster of u and o.
RemovedFromPair(u, o) ==
    /\ phase = "running"
    /\ isCloudConnected
    /\ user = u
    /\ tripUsers = <<o>>

\* The eviction has cleared localStorage and the photo store and has called
\* window.location.reload().
SessionWiped ==
    /\ phase = "unloading"
    /\ localStorage = EmptyStorage
    /\ photoDB = {}
    /\ PhotosOff

AbsentFromRoster(u) ==
    /\ phase = "running"
    /\ isCloudConnected
    /\ subscribed
    /\ user = u
    /\ remote.users.exists
    /\ tripUsers = remote.users.list
    /\ u \notin Range(tripUsers)

\* C14: a connected session with a logged-in identity whose name is not in
\* the synchronized roster is eventually evicted (localStorage and the photo
\* store cleared, the page reloaded), whatever else the roster holds: the
\* name cannot stay absent from the roster the session holds for ever.
C14_Original ==
    \A u \in RosterLoginNames : <>[]AbsentFromRoster(u) => <>SessionWiped

\* The eviction callback starts: localStorage.clear() has run.
EvictionExecutes == kickPc = "idle" /\ kickPc' = "awaitPhotos"

\* C15: when the eviction wipe executes, the session is connected with its
\* listeners attached, an identity is logged in, and the roster held (the one
\* received last) does not contain the identity's name; a roster containing
\* the name that arrives while the eviction is pending leaves no eviction
\* pending.
C15_NoEvictionOfMembers ==
    [][/\ EvictionExecutes =>
            /\ isCloudConnected
            /\ subscribed
            /\ user # NoUser
            /\ user \notin Range(tripUsers)
            /\ tripUsers # DEFAULT_TRIP_USERS
       /\ (EvictionPending /\ kickPc = "idle" /\ user' \in Range(tripUsers')) =>
            /\ ~EvictionPending'
            /\ kickPc' = "idle"
            /\ localStorage' = localStorage]_vars

\* The wipe has executed for an identity that the roster does not contain.
C15_Witness ==
    /\ kickPc = "awaitPhotos"
    /\ localStorage = EmptyStorage
    /\ user # NoUser
    /\ user \notin Range(tripUsers)

\* The second write of an announce (arrayRemove('Me')) reaches the remote
\* store of a connected, logged-in session whose name the first write
\* (arrayUnion) has put into the roster.
AnnounceApplied ==
    /\ RemoteApply
    /\ isCloudConnected
    /\ user # NoUser
    /\ Head(outbox).write = OpRemove("Me", FALSE)
    /\ remote.users.exists
    /\ user \in Range(remote.users.list)

\* C16: after a login in a local-only session the in-memory roster, and after
\* the announce of a connected, logged-in session has been applied the remote
\* roster, contains the identity's name and does not contain 'Me'.
C16_Original ==
    [][/\ (handleLogin /\ ~isCloudConnected) =>
            /\ user' \in Range(tripUsers')
            /\ "Me" \notin Range(tripUsers')
       /\ AnnounceApplied =>
            /\ user \in Range(remote'.users.list)
            /\ "Me" \notin Range(remote'.users.list)]_vars

\* ------------------------------------------------------------------------
\* Expense and itinerary handler properties
\* ------------------------------------------------------------------------

WithId(list, id) == {k \in DOMAIN list : list[k].id = id}

\* C17: the in-memory expense list never holds two expenses with the same
\* id, and right after handleExpensesChange('add', item) it holds exactly one
\* expense with item.id, whatever adds, deletes and snapshots came before.
C17_OneExpensePerId ==
    /\ [](\A id \in ExpenseIds : Cardinality(WithId(expenses, id)) <= 1)
    /\ [][\A item \in SyncExpenseInputs :
             handleExpensesChange("add", item) =>
                 Cardinality(WithId(expenses', item.id)) = 1]_vars

\* An add was made for an id the remote store already held: the list holds
\* the expense once, and the write of the add is pending.
C17_Witness ==
    /\ phase = "running"
    /\ isCloudConnected
    /\ Len(expenses) = 1
    /\ WithId(remote.expenses, expenses[1].id) # {}
    /\ outbox # <<>>
    /\ Head(outbox).write = OpSetExpense(expenses[1])

\* The write of an added expense is rejected in a connected session.
PushFails ==
    /\ RemoteFail
    /\ isCloudConnected
    /\ Head(outbox).write.op = "setExpense"

\* A step puts a setDoc of an expense among the pending writes.
PushIssued ==
    /\ Len(outbox') > Len(outbox)
    /\ outbox'[Len(outbox')].write.op = "setExpense"

\* C18: when the write of an added expense is rejected in a connected
\* session, the write leaves the pending writes and nothing else changes (the
\* expense stays in the list, nothing is reported); an expense write is
\* issued only by a call of handleExpensesChange('add'), never again on its
\* own; and the list of a running connected session changes only by the
\* expenses listener or by a call of handleExpensesChange.
C18_FailedPushKeepsExpense ==
    [][/\ PushFails =>
            /\ expenses' = expenses
            /\ outbox' = Tail(outbox)
            /\ UNCHANGED <<phase, isCloudConnected, user, tripUsers, itinerary,
                           localStorage, remote, resetPc, kickPc>>
       /\ PushIssued =>
            \E item \in SyncExpenseInputs : handleExpensesChange("add", item)
       /\ (isCloudConnected /\ phase = "running" /\ phase' = "running"
             /\ isCloudConnected' /\ expenses' # expenses) =>
            \/ SnapshotExpenses
            \/ \E action \in {"add", "delete"}, item \in SyncExpenseInputs :
                  handleExpensesChange(action, item)]_vars

\* The write was rejected: the expense is in the list, not in the remote
\* store, and no write is pending.
C18_Witness ==
    /\ phase = "running"
    /\ isCloudConnected
    /\ firebase.db
    /\ Len(expenses) = 1
    /\ remote.expenses = <<>>
    /\ outbox = <<>>

ItineraryCall ==
    \E action \in {"add", "update", "delete"}, item \in ItineraryItems :
        handleItineraryChange(action, item)

\* C19: a call of handleItineraryChange in a connected session leaves the
\* in-memory itinerary and localStorage as they are, and in a running
\* connected session the itinerary changes only when its listener is called;
\* a call in a local-only session changes only the in-memory itinerary and
\* the itinerary key, and leaves the pending writes and the remote store as
\* they are.
C19_ItineraryPaths ==
    [][/\ (ItineraryCall /\ isCloudConnected) =>
            /\ itinerary' = itinerary
            /\ localStorage' = localStorage
       /\ (isCloudConnected /\ isCloudConnected' /\ phase = "running"
             /\ phase' = "running" /\ itinerary' # itinerary) => SnapshotItinerary
       /\ (ItineraryCall /\ ~isCloudConnected) =>
            /\ outbox' = outbox
            /\ remote' = remote
            /\ \A k \in DOMAIN localStorage \ {"itinerary"} :
                  localStorage'[k] = localStorage[k]
            /\ UNCHANGED <<tripUsers, expenses, user, isCloudConnected>>]_vars

\* A connected session has issued an itinerary write and shows nothing yet.
C19_Witness ==
    /\ phase = "running"
    /\ isCloudConnected
    /\ outbox # <<>>
    /\ Head(outbox).write.op = "setItinerary"
    /\ itinerary = <<>>
    /\ LocalView.itinerary # <<>>

\* ------------------------------------------------------------------------
\* Roster handler properties
\* ------------------------------------------------------------------------

BlankNames == {name \in TypedNames \cup RemovedNames : Trim(name) = ""}

\* C20: handleAddTripUser and handleRemoveTripUser called with an empty or
\* whitespace-only name leave the in-memory roster, the roster key of
\* localStorage and the remote roster as they are and issue no remote write,
\* in connected and in local-only sessions.
C20_Original ==
    [][\A name \in BlankNames :
          (handleAddTripUser(name) \/ handleRemoveTripUser(name)) =>
              /\ tripUsers' = tripUsers
              /\ localStorage'.users = localStorage.users
              /\ remote' = remote
              /\ outbox' = outbox]_vars

\* ------------------------------------------------------------------------
\* Stored data properties
\* ------------------------------------------------------------------------

\* The splitBy the spec gives a record read while the roster is tu.
SpecifiedSplit(item, tu) ==
    IF Len(item.splitBy) > 0 THEN item.splitBy
    ELSE IF item.isShared THEN tu ELSE <<item.payer>>

\* The render of a local-only startup that shows the expenses read from
\* localStorage.
LoadsExpenses ==
    /\ StartupRenders
    /\ ~startup.connected
    /\ startup.data.expenses.set
    /\ localStorage.expenses.kind = "json"

\* C21: an expense read without a non-empty splitBy, from localStorage at a
\* local-only startup or from a snapshot of the remote expenses, is shown
\* with splitBy equal to the current roster if isShared and to [payer]
\* otherwise.
C21_Original ==
    [][/\ LoadsExpenses =>
            /\ Len(expenses') = Len(localStorage.expenses.value)
            /\ \A i \in DOMAIN expenses' :
                  expenses'[i].splitBy =
                      SpecifiedSplit(localStorage.expenses.value[i], tripUsers')
       /\ (SnapshotExpenses /\ isCloudConnected) =>
            /\ Len(expenses') = Len(LocalView.expenses)
            /\ \A i \in DOMAIN expenses' :
                  expenses'[i].splitBy =
                      SpecifiedSplit(LocalView.expenses[i], tripUsers)]_vars

\* C22: reading and migrating expenses changes no stored record: the render
\* that shows the expenses loaded at a local-only startup leaves the expenses
\* key as it was, and a call of the expenses listener leaves the remote
\* documents, the pending writes and the expenses key as they were.
C22_Original ==
    [][/\ LoadsExpenses =>
            /\ localStorage'.expenses = localStorage.expenses
            /\ remote' = remote
       /\ SnapshotExpenses =>
            /\ remote' = remote
            /\ outbox' = outbox
            /\ localStorage'.expenses = localStorage.expenses]_vars

\* ------------------------------------------------------------------------
\* Photo gallery properties
\* ------------------------------------------------------------------------

\* C23: no photo id is held both by the local photo record store and by the
\* remote store, as a metadata document or as an image in Storage, at the
\* same time.
C23_Original == photoDB \cap (cloudPhotos.docs \cup cloudPhotos.blobs) = {}

\* ------------------------------------------------------------------------
\* Reset properties
\* ------------------------------------------------------------------------

\* The reloaded page before its first commit: nothing in memory, no listener.
RestartsLoggedOut ==
    /\ phase' = "boot"
    /\ user' = NoUser
    /\ ~isCloudConnected'
    /\ ~subscribed'
    /\ outbox' = <<>>
    /\ InitialUser(localStorage') = NoUser

\* localStorage after the reset state was rendered: the roster effect wrote
\* the default roster.
DefaultRosterOnly ==
    [EmptyStorage EXCEPT !.users = JSONstringify(DEFAULT_TRIP_USERS)]

C25_Original ==
    ActiveListeners =
        IF isCloudConnected
        THEN {"users", "expenses", "itinerary"} \cup (IF storage THEN {"photos"} ELSE {})
        ELSE {}

\* The first commit reads the stored keys.
FirstCommit == phase = "boot" /\ phase' = "mounted"

\* What the first commit puts in memory, or queues for the next render, for
\* each stored key that fails to parse is the built-in default.
CorruptKeysDiscarded ==
    /\ localStorage.user.kind = "corrupt" => user' = NoUser
    /\ localStorage.rate.kind = "corrupt" => exchangeRate' = DefaultRate
    /\ localStorage.users.kind = "corrupt" => ~startup'.data.users.set
    /\ localStorage.itinerary.kind = "corrupt" => ~startup'.data.itinerary.set
    /\ localStorage.expenses.kind = "corrupt" =>
           (startup'.data.expenses.set => startup'.data.expenses.value = <<>>)

\* C26: for every stored key read at startup or on first render (identity,
\* roster, itinerary, expenses, exchange rate, weather cache) a value that
\* fails to parse is discarded in favour of the built-in default, and no
\* step ends in an uncaught error.
C26_Original ==
    [][/\ FirstCommit => CorruptKeysDiscarded
       /\ phase' # "crashed"]_vars

\* C27: in a local-only startup the first commit, which runs before the
\* saved values are in memory, leaves the stored roster, itinerary and
\* expenses as they were before the page loaded.
C27_Original ==
    [][(FirstCommit /\ ~startup'.connected) =>
           \A k \in AllLists :
               localStorage[k].kind = "json" => localStorage'[k] = localStorage[k]]_vars

\* ------------------------------------------------------------------------
\* Connection properties
\* ------------------------------------------------------------------------

\* C28: whenever the session is cloud-connected, the remote store handle is
\* initialised (isFirebaseInitialized() is true), on every startup path.
C28_Original == isCloudConnected => firebase.db

\* ------------------------------------------------------------------------
\* Convergence properties
\* ------------------------------------------------------------------------

\* No setDoc or deleteDoc of an expense is pending.
NoExpenseWriteInFlight ==
    \A k \in DOMAIN outbox : outbox[k].write.op \notin {"setExpense", "deleteExpense"}

\* No expenses snapshot is outstanding: the listener, where one is attached,
\* has been given the current view of the collection.
ExpenseSnapshotsDelivered ==
    subscribed =>
        expenses = safeMigrateExpenses([isArray |-> TRUE, items |-> LocalView.expenses])

\* C29: in a running cloud-connected session with no expense write in flight
\* and no expenses snapshot outstanding, the expense list in memory is the
\* migrated remote expense collection.
C29_Original ==
    (/\ phase = "running"
     /\ isCloudConnected
     /\ NoExpenseWriteInFlight
     /\ ExpenseSnapshotsDelivered)
        => expenses = safeMigrateExpenses([isArray |-> TRUE, items |-> remote.expenses])

\* ------------------------------------------------------------------------
\* Reload properties
\* ------------------------------------------------------------------------

\* C30: in a running local-only session that is not being reset, after any
\* adds and deletes, the roster, itinerary and expense lists a reload
\* restores from localStorage are the lists in memory.
C30_Original ==
    (phase = "running" /\ ~isCloudConnected /\ resetPc = "idle") =>
        RestoredLists(localStorage) =
            [tripUsers |-> tripUsers, itinerary |-> itinerary, expenses |-> expenses]

====
